---- MODULE Spec2Model ----
(***************************************************************************)
(* Model of the MQTT bridging engine of the smarthome package:             *)
(*   smarthome/mqtt.py                   MqttBus (router, rpc, wait_for)   *)
(*   smarthome/api/device_controller.py  DeviceController.set_device_state *)
(*                                                                         *)
(* Time is counted in poll intervals (one tick = the 0.02 s sleep of the   *)
(* poll loops) and kept per call, as the elapsed part of its wait budget.  *)
(* Every block the code runs under `with self._lock` is one                *)
(* atomic action; statements outside the lock that touch shared state are  *)
(* actions of their own.  The delivery thread's _on_message runs entirely  *)
(* under the lock and is one action.                                       *)
(***************************************************************************)
EXTENDS Integers, Sequences, FiniteSets, TLC

\* ------------------------------------------------------------------ bounds
Timeout == 2      \* the `timeout` argument of every call, in ticks
MaxMsgs == 2      \* inbound messages the delivery thread dispatches

\* Caller threads; each performs one call.
Calls == {"c1", "c2"}
\* Tokens uuid4().hex[:8] may produce.
Ids == {"a1", "b2"}
None == "None"

\* ------------------------------------------------------------------ topics
\* A topic is the sequence of its '/'-separated levels.
Z2M_BASE == "zigbee2mqtt"
Dev == "Light1"
Group == "Kitchen"
StateTopic(fn) == <<Z2M_BASE, fn>>
SetTopic(fn) == <<Z2M_BASE, fn, "set">>
RequestTopic == <<Z2M_BASE, "bridge", "request", "health_check">>
ResponseTopic == <<Z2M_BASE, "bridge", "response", "health_check">>
\* f"{Z2M_BASE}/bridge/response/": the levels before the trailing '/'.
ResponsePrefix == <<Z2M_BASE, "bridge", "response">>

\* topic.startswith(prefix + "/")
StartsWithSlash(topic, prefix) ==
    /\ Len(topic) > Len(prefix)
    /\ SubSeq(topic, 1, Len(prefix)) = prefix

\* ---------------------------------------------------------------- payloads
\* A parsed JSON value.  An object (kind "dict") has its two correlation
\* fields (None = absent), the reserved field `_raw` (None = absent) and the
\* rest of its content (body 0 = no other field).  EmptyObj is {}.  A JSON
\* array (kind "list") has its content only (body 0 = []).
Payload(tx, id, body) ==
    [kind |-> "dict", transaction |-> tx, id |-> id, body |-> body, raw |-> None]
EmptyObj == Payload(None, None, 0)
List(body) ==
    [kind |-> "list", transaction |-> None, id |-> None, body |-> body, raw |-> None]
\* {"_raw": text}
RawObj(text) ==
    [kind |-> "dict", transaction |-> None, id |-> None, body |-> 0, raw |-> text]
\* Mutant: the poll tests `is not None` instead of truthiness.
Truthy_NotNone(p) == TRUE

\* Python truthiness of a dict or list: non-empty.
Truthy(p) == p.transaction # None \/ p.id # None \/ p.body # 0 \/ p.raw # None
\* isinstance(payload, dict)
IsDict(p) == p.kind = "dict"
\* Mutant: `id` is preferred to `transaction`.
CorrKey_IdFirst(p) == IF p.id \notin {None, ""} THEN p.id
                      ELSE IF p.transaction \notin {None, ""} THEN p.transaction
                      ELSE ""
\* str(payload.get("transaction") or payload.get("id") or ""): `or` passes
\* over a field that is absent (None) or holds the empty string
CorrKey(p) == IF p.transaction \notin {None, ""} THEN p.transaction
              ELSE IF p.id \notin {None, ""} THEN p.id ELSE ""

\* ------------------------------------------------------------ dictionaries
EmptyDict == [k \in {} |-> 0]
Put(d, k, v) == [x \in (DOMAIN d) \cup {k} |-> IF x = k THEN v ELSE d[x]]
\* Mutant: the key is read and left in place (dict.get).
Pop_Keep(d, k) == d
\* d.pop(k, None): the dict without k
Pop(d, k) == [x \in (DOMAIN d) \ {k} |-> d[x]]

VARIABLES
    topic_handlers,  \* MqttBus._topic_handlers: topic -> handler (the owning
                     \* call of a state_handler, or a recording handler)
    wait_by_key,     \* MqttBus._wait_by_key: key -> [topic, payload]
    one_shot,        \* MqttBus._one_shot: topic -> payload
    subscribed,      \* topic filters requested from the broker (client.subscribe)
    sent,            \* per call: the [topic, body] it published (client.publish), in order
    calls,           \* per call: program counter and locals
    nmsg,            \* messages dispatched so far
    prefix_handlers, \* MqttBus._prefix_handlers: [prefix, handler] in insertion order
    dispatched,      \* the latest run of _on_message, as seen from outside:
                     \* invoked = the calls made to the recording handlers,
                     \* steps = the blocks of _on_message that ran, raised =
                     \* an exception left _on_message, earlier_fault = a
                     \* handler raised in an earlier run
    displaced,       \* history: the [topic, handler] pairs whose handler was
                     \* replaced by a later subscribe_topic on the topic
    locks,           \* who holds MqttBus._lock (bus) and the threading.Lock
                     \* of each set_device_state call (call); None = free
    delivery,        \* the delivery thread inside _on_message: where it is,
                     \* the message, and what `topic in self._one_shot` gave
    session          \* the module globals _bus (0 = None, n = the n-th
                     \* MqttBus built) and _controller, and how many
                     \* MqttBus and DeviceController objects were built

vars == <<topic_handlers, wait_by_key, one_shot, subscribed, sent, calls, nmsg,
          prefix_handlers, dispatched, displaced, locks, delivery, session>>

\* A call that has not started.
\* Locals: topic, has_field (a control field was supplied), corr, event
\* (received_event), confirmed (confirmed_state), and the two clock readings the
\* code makes: elapsed = min(time.time() - t0, timeout) and sleep = what is left
\* of the current time.sleep(0.02).
\* rtopic is the topic of the correlation entry rpc returned.
\* History: m_start = nmsg when the call created its handler or slot; stale = the correlation table held an entry under
\* the call's id when it published; heard = the messages dispatched for the
\* call (on its topic, or carrying its correlation id) since it began and before
\* it ended, each with whether the call had published and whether its wait
\* budget had not yet elapsed and whether the exact handler invoked for it was
\* the call's own; other = another call's exact handler was put on
\* its topic while it listened, or another wait_for on its topic was
\* outstanding during the call; stalled = a poll interval passed while the
\* call's thread was ready to run its poll loop (it was not scheduled).
\* args = the control arguments of a set_group_state call, or the name of the
\* controller method the call runs; inner = how the bus call made by that
\* method ended, kept when the method itself ends.
\* redelivery follows the broker's answer to the call's subscribe request when
\* the broker holds a retained message for the topic: "owed" once the
\* subscription is requested, then "prompt" if the retained message was
\* dispatched before a poll interval had passed since the subscribe, "late" if
\* it was dispatched after that.
IdleCall == [op |-> "none", pc |-> "idle", topic |-> << >>, has_field |-> FALSE,
             elapsed |-> 0, sleep |-> 0,
             corr |-> None, event |-> FALSE, confirmed |-> EmptyObj,
             result |-> EmptyObj, rtopic |-> << >>, outcome |-> "none",
             m_start |-> 0, stale |-> FALSE, heard |-> {}, other |-> FALSE,
             stalled |-> FALSE, redelivery |-> "none", args |-> << >>,
             inner |-> [outcome |-> "none", result |-> EmptyObj]]

\* A DeviceController: its number and the bus its __init__ got from
\* get_bus(); NoController is the None of the global _controller.
Controller(id, bus) == [id |-> id, bus |-> bus]
NoController == Controller(0, 0)

\* The delivery thread between two messages.
IdleDelivery == [pc |-> "idle", topic |-> << >>, payload |-> EmptyObj,
                 found |-> FALSE]

Init ==
    /\ topic_handlers = EmptyDict
    /\ wait_by_key = EmptyDict
    /\ one_shot = EmptyDict
    /\ subscribed = {<<Z2M_BASE, "#">>, <<Z2M_BASE, "bridge", "response", "#">>}
    /\ sent = [c \in Calls |-> << >>]
    /\ calls = [c \in Calls |-> IdleCall]
    /\ nmsg = 0
    /\ prefix_handlers = << >>
    /\ dispatched = [invoked |-> << >>, steps |-> << >>, raised |-> FALSE,
                     earlier_fault |-> FALSE]
    /\ displaced = {}
    /\ locks = [bus |-> None, call |-> [c \in Calls |-> None]]
    /\ delivery = IdleDelivery
    /\ session = [bus |-> 0, buses |-> 0, controller |-> NoController,
                  controllers |-> 0]

CanStart(c) == calls[c].pc = "idle"

\* ------------------------------------------------------------------- locks
\* `with self._lock:` entered by the caller thread c: the thread took the
\* lock in an earlier step (Acquire) or takes it in this one.
Enter(c) == locks.bus \in {None, c}

\* Mutant: the with block is left with the lock still held.
Leave_Held(c) == c

\* the end of a `with self._lock:` block: who holds the lock afterwards
Leave(c) == None

\* The locks after the caller thread c has run a `with self._lock:` block.
Unlock(c) == [locks EXCEPT !.bus = Leave(c)]

\* `with self._lock:` of a thread that runs the whole block in one step.
BusFree == locks.bus = None

\* `with lock:` of state_handler, run by the delivery thread for the exact
\* handler of `topic`: the lock of the owning call is not held by its caller.
HandlerLockFree(tbl, topic) ==
    (topic \in DOMAIN tbl /\ tbl[topic] \in Calls) => locks.call[tbl[topic]] = None

\* The call ends: outcome is "returned" or the exception raised.
Finish(c, outcome, result) ==
    [calls[c] EXCEPT !.pc = "done", !.outcome = outcome, !.result = result]

\* ------------------------------------------------------------------- clock
\* The call has read t0: its wait budget is running.
Timing(c) == calls[c].pc \in {"rpc_check", "rpc_poll", "rpc_sleep", "wf_check",
                              "wf_poll", "wf_sleep", "sds_wait"}
Sleeping(c) == calls[c].pc \in {"rpc_sleep", "wf_sleep"} /\ calls[c].sleep > 0

\* The call's thread is inside its poll loop and not asleep.
Ready(c) == calls[c].pc \in {"rpc_check", "rpc_poll", "wf_check", "wf_poll"}
            \/ (calls[c].pc \in {"rpc_sleep", "wf_sleep"} /\ calls[c].sleep = 0)

\* One poll interval passes: time.time() - t0 grows for every call that
\* took t0, and every time.sleep(0.02) in progress completes.  The clock is
\* followed only while some call reads it.
Tick ==
    /\ \E c \in Calls : \/ Timing(c) /\ calls[c].elapsed < Timeout
                        \/ Sleeping(c)
    /\ calls' = [c \in Calls |->
                   IF Timing(c)
                   THEN [calls[c] EXCEPT
                           !.elapsed = IF @ < Timeout THEN @ + 1 ELSE @,
                           !.sleep = 0,
                           !.stalled = @ \/ Ready(c)]
                   ELSE calls[c]]
    /\ UNCHANGED <<topic_handlers, wait_by_key, one_shot, subscribed, sent, nmsg, prefix_handlers, dispatched, displaced,
                   locks, delivery, session>>

\* ---------------------------------------------------------------- delivery
\* Mutant: the handler captures the payload and forgets received_event.set().
StateHandler_NoSignal(cs, c, payload) == [cs EXCEPT ![c].confirmed = payload]

\* Mutant: the handler accepts only a payload that shows the commanded state
\* (the command sent has body 1).
StateHandler_Matching(cs, c, payload) ==
    IF payload.body = 1
    THEN [cs EXCEPT ![c].confirmed = payload, ![c].event = TRUE]
    ELSE cs

\* Mutant: confirmed_state and received_event are shared by all calls.
StateHandler_Shared(cs, c, payload) ==
    [d \in Calls |-> [cs[d] EXCEPT !.confirmed = payload, !.event = TRUE]]

\* state_handler of the set_device_state call c: confirmed_state = payload;
\* received_event.set()
StateHandler(cs, c, payload) ==
    [cs EXCEPT ![c].confirmed = payload, ![c].event = TRUE]

\* Recording handlers registered by other users of the bus; hx raises.
Handlers == {"h1", "h2", "hx"}
Raises(h) == h = "hx"

\* One run of _on_message in progress: the callers' locals, the two tables it
\* writes, and what `dispatched` will hold.
Begin == [cs |-> calls, wbk |-> wait_by_key, slots |-> one_shot,
          invoked |-> << >>, steps |-> << >>, raised |-> FALSE]

\* Mutant: no try/except around the handler call.
Swallow_Propagate(exc) == exc

\* try: handler(topic, payload) / except Exception: pass -- does the
\* exception leave the try statement?
Swallow(exc) == FALSE

\* handler(topic, payload) inside its try/except.  `how` tells an exact
\* handler from a prefix handler, `key` is what it was registered under.
CallHandler(st, h, how, key, topic, payload) ==
    IF h \in Calls
    THEN [st EXCEPT !.cs = StateHandler(@, h, payload)]
    ELSE [st EXCEPT !.invoked = Append(@, [h |-> h, how |-> how, key |-> key,
                                           topic |-> topic, payload |-> payload]),
                    !.raised = Swallow(Raises(h))]

\* A block of _on_message runs unless an exception is on its way out.
Step(st, name) == [st EXCEPT !.steps = Append(@, name)]

\* Mutant: a handler registered for NS/<name> is also looked up for a topic
\* one level below it (NS/<name>/set).
InvokeExact_Parent(st, topic, payload) ==
    LET parent == SubSeq(topic, 1, Len(topic) - 1)
        key == IF topic \in DOMAIN topic_handlers THEN topic ELSE parent
    IN IF st.raised THEN st
       ELSE IF key \in DOMAIN topic_handlers
            THEN CallHandler(Step(st, "exact"), topic_handlers[key], "exact",
                             key, topic, payload)
            ELSE Step(st, "exact")

\* exact-topic handler invocation of _on_message
InvokeExact(st, topic, payload) ==
    IF st.raised THEN st
    ELSE IF topic \in DOMAIN topic_handlers
         THEN CallHandler(Step(st, "exact"), topic_handlers[topic], "exact",
                          topic, topic, payload)
         ELSE Step(st, "exact")

\* A registered prefix: its complete levels, each followed by '/', and the
\* characters after the last '/' (tail "" = the prefix ends with '/').
Prefix(levels, tail) == [levels |-> levels, tail |-> tail]
\* str.startswith on one level, over the level names in use.
LevelStartsWith(level, tail) ==
    \/ tail = ""
    \/ tail = level
    \/ tail = "Light" /\ level = "Light1"
\* topic.startswith(prefix)
StartsWith(topic, prefix) ==
    LET n == Len(prefix.levels)
    IN  /\ Len(topic) >= n
        /\ SubSeq(topic, 1, n) = prefix.levels
        /\ IF Len(topic) = n
           THEN prefix.tail = "" /\ n = 0
           ELSE LevelStartsWith(topic[n + 1], prefix.tail)

\* Mutant: every prefix handler is taken to match.
PrefixMatches_All(topic, prefix) == TRUE

\* `if topic.startswith(prefix)` of the prefix loop
PrefixMatches(topic, prefix) == StartsWith(topic, prefix)

\* for prefix, cb in list(self._prefix_handlers.items()): from entry i on
RECURSIVE PrefixLoop(_, _, _, _)
PrefixLoop(st, i, topic, payload) ==
    IF st.raised \/ i > Len(prefix_handlers) THEN st
    ELSE PrefixLoop(IF PrefixMatches(topic, prefix_handlers[i].prefix)
                    THEN CallHandler(st, prefix_handlers[i].handler, "prefix",
                                     prefix_handlers[i].prefix, topic, payload)
                    ELSE st,
                    i + 1, topic, payload)

\* prefix handler invocation of _on_message
InvokePrefix(st, topic, payload) ==
    IF st.raised THEN st ELSE PrefixLoop(Step(st, "prefix"), 1, topic, payload)

\* Mutant: the table keeps the newest entry only.
Correlate_Single(tbl, topic, payload) ==
    IF IsDict(payload) /\ CorrKey(payload) # ""
    THEN Put(EmptyDict, CorrKey(payload), [topic |-> topic, payload |-> payload])
    ELSE tbl

\* RPC correlation of _on_message
Correlate(tbl, topic, payload) ==
    IF IsDict(payload) /\ CorrKey(payload) # ""
    THEN Put(tbl, CorrKey(payload), [topic |-> topic, payload |-> payload])
    ELSE tbl

\* wait_for one-shot fill of _on_message
FillSlot(slots, topic, payload) ==
    IF topic \in DOMAIN slots THEN Put(slots, topic, payload) ELSE slots

\* History: is (topic, payload) a message for the call c, dispatched while it
\* listens?
Listening(c) == calls[c].pc \notin {"idle", "done", "sds_register"}
IsFor(c, topic, payload) ==
    /\ Listening(c)
    /\ IF calls[c].op = "rpc"
       THEN CorrKey(payload) = calls[c].corr
       ELSE topic = calls[c].topic
Note(cs, topic, payload) ==
    [c \in Calls |->
       IF IsFor(c, topic, payload)
       THEN [cs[c] EXCEPT !.heard = @ \cup
               {[p |-> payload, t |-> topic,
                 published |-> sent[c] # << >>,
                 intime |-> calls[c].elapsed < Timeout,
                 own |-> (topic \in DOMAIN topic_handlers
                            /\ topic_handlers[topic] = c)]}]
       ELSE cs[c]]

\* The body of _on_message under the lock, block after block.
CorrelateStep(st, topic, payload) ==
    IF st.raised THEN st
    ELSE [Step(st, "correlate") EXCEPT !.wbk = Correlate(@, topic, payload)]
FillStep(st, topic, payload) ==
    IF st.raised THEN st
    ELSE [Step(st, "fill") EXCEPT !.slots = FillSlot(@, topic, payload)]
Dispatch(topic, payload) ==
    FillStep(CorrelateStep(InvokePrefix(InvokeExact(Begin, topic, payload),
                                        topic, payload),
                           topic, payload),
             topic, payload)

\* What the run leaves in `dispatched`.
Faulty(inv) == \E i \in DOMAIN inv : Raises(inv[i].h)
Outcome(st) ==
    [invoked |-> st.invoked, steps |-> st.steps, raised |-> st.raised,
     earlier_fault |-> dispatched.earlier_fault \/ Faulty(dispatched.invoked)]

\* Mutant: bytes that do not parse are dropped (delivered as {}).
TryJson_Drop(data) ==
    IF data.decodes /\ data.value.kind # "error" THEN data.value ELSE EmptyObj

\* _try_json(data).  The bytes are given by what decoding does to them:
\* decodes = data.decode() succeeds, text = data.decode("utf-8", "ignore"),
\* value = what json.loads(text) returns (kind "error" = it raises).
TryJson(data) ==
    IF data.decodes /\ data.text = "" THEN EmptyObj
    ELSE IF data.decodes /\ data.value.kind # "error" THEN data.value
    ELSE RawObj(data.text)

\* MqttBus._on_message(topic, payload), the whole body under the lock.  An
\* exception that left the callback would end paho's network loop thread.
OnMessage(topic, payload) ==
    /\ nmsg < MaxMsgs
    /\ ~dispatched.raised
    /\ delivery.pc = "idle" /\ BusFree /\ HandlerLockFree(topic_handlers, topic)
    /\ LET st == Dispatch(topic, payload)
       IN  /\ calls' = Note(st.cs, topic, payload)
           /\ wait_by_key' = st.wbk
           /\ one_shot' = st.slots
           /\ dispatched' = Outcome(st)
    /\ nmsg' = nmsg + 1
    /\ UNCHANGED <<topic_handlers, subscribed, sent, prefix_handlers, displaced,
                   locks, delivery, session>>

\* ----------------------------------------------------------- registration
\* Mutant: the first handler registered for a topic stays (setdefault).
RegisterExact_KeepFirst(tbl, topic, c) ==
    IF topic \in DOMAIN tbl THEN tbl ELSE Put(tbl, topic, c)

\* Mutant: the handler is never stored.
RegisterExact_Dropped(tbl, topic, c) == tbl

\* subscribe_topic, under the lock: self._topic_handlers[topic] = handler
RegisterExact(tbl, topic, c) == Put(tbl, topic, c)

\* subscribe_topic(topic, handler) with a recording handler.  The locked
\* assignment and the client.subscribe after it are taken together: only
\* registrations write `subscribed`, by adding an element, and nothing reads it.
SubscribeTopic(topic, h) ==
    /\ BusFree
    /\ topic_handlers' = RegisterExact(topic_handlers, topic, h)
    /\ subscribed' = subscribed \cup {topic}
    /\ displaced' = (displaced \cup
                       {[topic |-> topic, h |-> topic_handlers[t]] :
                          t \in {topic} \cap DOMAIN topic_handlers})
                    \ {[topic |-> topic, h |-> h]}
    /\ UNCHANGED <<wait_by_key, one_shot, sent, calls, nmsg, prefix_handlers,
                   dispatched,
                   locks, delivery, session>>

\* self._prefix_handlers[prefix] = handler on an insertion-ordered dict
RegisterPrefix(tbl, prefix, h) ==
    IF \E i \in DOMAIN tbl : tbl[i].prefix = prefix
    THEN [i \in DOMAIN tbl |-> IF tbl[i].prefix = prefix
                               THEN [prefix |-> prefix, handler |-> h]
                               ELSE tbl[i]]
    ELSE Append(tbl, [prefix |-> prefix, handler |-> h])

\* "#" in prefix or "+" in prefix
HasWildcard(prefix) ==
    \/ \E i \in DOMAIN prefix.levels : prefix.levels[i] \in {"#", "+"}
    \/ prefix.tail \in {"#", "+"}
\* the topic filter of subscribe_prefix: the prefix verbatim when it holds a
\* wildcard, else prefix.rstrip("/") + "/#"
TopicFilter(prefix) ==
    IF HasWildcard(prefix) THEN prefix.levels \o <<prefix.tail>>
    ELSE IF prefix.tail = "" THEN prefix.levels \o <<"#">>
    ELSE prefix.levels \o <<prefix.tail, "#">>

\* subscribe_prefix(prefix, handler) with a recording handler
SubscribePrefix(prefix, h) ==
    /\ BusFree
    /\ prefix_handlers' = RegisterPrefix(prefix_handlers, prefix, h)
    /\ subscribed' = subscribed \cup {TopicFilter(prefix)}
    /\ UNCHANGED <<topic_handlers, wait_by_key, one_shot, sent, calls, nmsg,
                   dispatched, displaced,
                   locks, delivery, session>>

\* ------------------------------------------------------ set_device_state
\* Mutant: the `if not command` check is missing.
SdsValidate_NoCheck(c, hasField) ==
    /\ CanStart(c)
    /\ calls' = [calls EXCEPT ![c] = [@ EXCEPT
                    !.op = "set_device_state", !.has_field = hasField,
                    !.topic = StateTopic(Dev), !.pc = "sds_register"]]
    /\ UNCHANGED <<topic_handlers, wait_by_key, one_shot, subscribed, sent, nmsg, prefix_handlers, dispatched, displaced,
                   locks, delivery, session>>

\* The command dict is built and checked: `if not command: raise ValueError`.
SdsValidate(c, hasField) ==
    /\ CanStart(c)
    /\ LET r == [calls[c] EXCEPT !.op = "set_device_state", !.has_field = hasField,
                                 !.topic = StateTopic(Dev)]
       IN  calls' = [calls EXCEPT ![c] =
                IF hasField THEN [r EXCEPT !.pc = "sds_register"]
                ELSE [r EXCEPT !.pc = "done", !.outcome = "ValueError"]]
    /\ UNCHANGED <<topic_handlers, wait_by_key, one_shot, subscribed, sent, nmsg, prefix_handlers, dispatched, displaced,
                   locks, delivery, session>>

\* History: the active calls whose exact handler on `topic` gets replaced.
Replaced(cs, topic, c) ==
    [d \in Calls |-> IF d # c /\ Listening(d) /\ cs[d].topic = topic
                        /\ cs[d].op = "set_device_state"
                     THEN [cs[d] EXCEPT !.other = TRUE] ELSE cs[d]]

\* bus.subscribe_topic(state_topic, state_handler), first half (locked)
SdsRegister(c) ==
    /\ calls[c].pc = "sds_register"
    /\ Enter(c)
    /\ topic_handlers' = RegisterExact(topic_handlers, calls[c].topic, c)
    /\ calls' = [Replaced(calls, calls[c].topic, c) EXCEPT
                    ![c].pc = "sds_subscribe", ![c].m_start = nmsg]
    /\ locks' = Unlock(c)
    /\ UNCHANGED <<wait_by_key, one_shot, subscribed, sent, nmsg, prefix_handlers, dispatched, displaced,
                   delivery, session>>

\* bus.subscribe_topic, second half: self.client.subscribe(topic)
SdsSubscribe(c) ==
    /\ calls[c].pc = "sds_subscribe"
    /\ subscribed' = subscribed \cup {calls[c].topic}
    /\ calls' = [calls EXCEPT ![c].pc = "sds_publish"]
    /\ UNCHANGED <<topic_handlers, wait_by_key, one_shot, sent, nmsg, prefix_handlers, dispatched, displaced,
                   locks, delivery, session>>

\* bus.publish_json(set_topic, command); received_event.wait(timeout) begins
SdsPublish(c) ==
    /\ calls[c].pc = "sds_publish"
    /\ sent' = [sent EXCEPT ![c] = Append(@, [topic |-> SetTopic(Dev),
                                               body |-> Payload(None, None, 1)])]
    /\ calls' = [calls EXCEPT ![c].pc = "sds_wait", ![c].elapsed = 0]
    /\ UNCHANGED <<topic_handlers, wait_by_key, one_shot, subscribed, nmsg, prefix_handlers, dispatched, displaced,
                   locks, delivery, session>>

\* received_event.wait(timeout) returns True: the flag is set
SdsWaitSignalled(c) ==
    /\ calls[c].pc = "sds_wait"
    /\ calls[c].event
    /\ calls' = [calls EXCEPT ![c].pc = "sds_woken"]
    /\ UNCHANGED <<topic_handlers, wait_by_key, one_shot, subscribed, sent, nmsg, prefix_handlers, dispatched, displaced,
                   locks, delivery, session>>

\* received_event.wait(timeout) returns False: raise DeviceTimeoutError
SdsWaitTimeout(c) ==
    /\ calls[c].pc = "sds_wait"
    /\ ~calls[c].event
    /\ calls[c].elapsed >= Timeout
    /\ calls' = [calls EXCEPT ![c] = Finish(c, "DeviceTimeoutError", EmptyObj)]
    /\ UNCHANGED <<topic_handlers, wait_by_key, one_shot, subscribed, sent, nmsg, prefix_handlers, dispatched, displaced,
                   locks, delivery, session>>

\* with lock: return confirmed_state
SdsReturn(c) ==
    /\ calls[c].pc = "sds_woken"
    /\ locks.call[c] \in {None, "caller"}
    /\ calls' = [calls EXCEPT ![c] = Finish(c, "returned", calls[c].confirmed)]
    /\ locks' = [locks EXCEPT !.call[c] = None]
    /\ UNCHANGED <<topic_handlers, wait_by_key, one_shot, subscribed, sent, nmsg, prefix_handlers, dispatched, displaced,
                   delivery, session>>

\* -------------------------------------------------------- set_group_state
\* command = {}; each argument that is not None becomes a field.
BuildCommand(state, brightness, color_temp) ==
    [state |-> state, brightness |-> brightness, color_temp |-> color_temp]

\* Mutant: the command is never found empty.
IsEmptyCommand_Never(command) == FALSE

\* `not command`: the dict has no field
IsEmptyCommand(command) ==
    command.state = None /\ command.brightness = None /\ command.color_temp = None

\* DeviceController.set_group_state, the whole call: it touches no table of
\* the bus and never waits.
SetGroupState(c, state, brightness, color_temp) ==
    /\ CanStart(c)
    /\ LET command == BuildCommand(state, brightness, color_temp)
           r == [calls[c] EXCEPT !.op = "set_group_state",
                                 !.topic = SetTopic(Group),
                                 !.args = <<state, brightness, color_temp>>,
                                 !.pc = "done"]
       IN  IF IsEmptyCommand(command)
           THEN /\ calls' = [calls EXCEPT ![c] = [r EXCEPT !.outcome = "ValueError"]]
                /\ sent' = sent
           ELSE /\ sent' = [sent EXCEPT ![c] = Append(@, [topic |-> SetTopic(Group),
                                                          body |-> command])]
                /\ calls' = [calls EXCEPT ![c] =
                      [r EXCEPT !.outcome = "returned",
                                !.result = [success |-> TRUE, command |-> command]]]
    /\ UNCHANGED <<topic_handlers, wait_by_key, one_shot, subscribed, nmsg,
                   prefix_handlers, dispatched, displaced,
                   locks, delivery, session>>

\* -------------------------------------------------------------- API routes
Routes == {"list_devices", "get_device_state", "set_device_state",
           "list_groups", "set_group_state", "get_bridge_health",
           "get_bridge_info", "permit_join"}

\* The base class of each exception class.
Parent(cls) ==
    CASE cls = "DeviceTimeoutError" -> "DeviceControlError"
      [] cls = "DeviceNotFoundError" -> "DeviceControlError"
      [] OTHER -> "Exception"
\* isinstance(exc, cls) for an exception of class `of`
RECURSIVE IsInstance(_, _)
IsInstance(of, cls) ==
    \/ of = cls
    \/ of # "Exception" /\ IsInstance(Parent(of), cls)

Clause(cls, status) == [catches |-> cls, status |-> status]
\* The except clauses of each route function, in order.
ExceptClauses(route) ==
    CASE route = "get_device_state" ->
            <<Clause("DeviceTimeoutError", 404), Clause("Exception", 500)>>
      [] route = "set_device_state" ->
            <<Clause("DeviceNotFoundError", 404), Clause("DeviceTimeoutError", 504),
              Clause("ValueError", 422), Clause("Exception", 500)>>
      [] route = "set_group_state" ->
            <<Clause("ValueError", 422), Clause("Exception", 500)>>
      [] OTHER ->
            <<Clause("DeviceTimeoutError", 504), Clause("Exception", 500)>>

\* try: ... except ...: raise HTTPException(status_code=...): the first
\* clause that catches the exception decides the status; 200 without one.
RECURSIVE FirstMatch(_, _, _)
FirstMatch(clauses, i, exc) ==
    IF IsInstance(exc, clauses[i].catches) THEN clauses[i].status
    ELSE FirstMatch(clauses, i + 1, exc)
RouteStatus(route, exc) ==
    IF exc = "none" THEN 200 ELSE FirstMatch(ExceptClauses(route), 1, exc)

\* What the controller method behind each route raises ("none" = it returns;
\* RuntimeError stands for any unforeseen exception).
Raisable(route) ==
    {"none", "RuntimeError"} \cup
    CASE route = "set_device_state" -> {"ValueError", "DeviceTimeoutError"}
      [] route = "set_group_state" -> {"ValueError"}
      [] OTHER -> {"DeviceTimeoutError"}

\* One HTTP request served by a route function whose controller call ends
\* with `exc`.
ApiRequest(c, route, exc) ==
    /\ CanStart(c)
    /\ calls' = [calls EXCEPT ![c] = [@ EXCEPT
                    !.op = "route", !.args = <<route>>, !.pc = "done",
                    !.outcome = exc, !.result = RouteStatus(route, exc)]]
    /\ UNCHANGED <<topic_handlers, wait_by_key, one_shot, subscribed, sent, nmsg,
                   prefix_handlers, dispatched, displaced,
                   locks, delivery, session>>

\* ------------------------------------------------------------ singletons
\* A thread calls get_bus() directly.
GbStart(c) ==
    /\ CanStart(c)
    /\ calls' = [calls EXCEPT ![c] = [@ EXCEPT !.op = "get_bus", !.pc = "gb_check"]]
    /\ UNCHANGED <<topic_handlers, wait_by_key, one_shot, subscribed, sent, nmsg,
                   prefix_handlers, dispatched, displaced, locks, delivery, session>>

\* get_controller(): `if _controller is None` is evaluated; when it holds,
\* DeviceController() begins and its __init__ calls get_bus()
GcCheck(c) ==
    /\ CanStart(c)
    /\ calls' = [calls EXCEPT ![c] = [@ EXCEPT
                    !.op = "get_controller",
                    !.pc = IF session.controller = NoController
                           THEN "gb_check" ELSE "gc_return"]]
    /\ UNCHANGED <<topic_handlers, wait_by_key, one_shot, subscribed, sent, nmsg,
                   prefix_handlers, dispatched, displaced, locks, delivery, session>>

\* `_bus is None`
BusUnset(s) == s.bus = 0

\* get_bus(): `if _bus is None` is evaluated
GbCheck(c) ==
    /\ calls[c].pc = "gb_check"
    /\ calls' = [calls EXCEPT ![c].pc = IF BusUnset(session) THEN "gb_build"
                                        ELSE "gb_return"]
    /\ UNCHANGED <<topic_handlers, wait_by_key, one_shot, subscribed, sent, nmsg,
                   prefix_handlers, dispatched, displaced, locks, delivery, session>>

\* MqttBus(): a new bus is built (connection opened, delivery thread
\* started); args holds the thread's reference to it
GbBuild(c) ==
    /\ calls[c].pc = "gb_build"
    /\ session' = [session EXCEPT !.buses = @ + 1]
    /\ calls' = [calls EXCEPT ![c].pc = "gb_store",
                               ![c].args = <<session.buses + 1>>]
    /\ UNCHANGED <<topic_handlers, wait_by_key, one_shot, subscribed, sent, nmsg,
                   prefix_handlers, dispatched, displaced, locks, delivery>>

\* `_bus = ` the bus built
GbStore(c) ==
    /\ calls[c].pc = "gb_store"
    /\ session' = [session EXCEPT !.bus = calls[c].args[1]]
    /\ calls' = [calls EXCEPT ![c].pc = "gb_return"]
    /\ UNCHANGED <<topic_handlers, wait_by_key, one_shot, subscribed, sent, nmsg,
                   prefix_handlers, dispatched, displaced, locks, delivery>>

\* `return _bus`: to the caller of get_bus(), or to DeviceController.__init__
\* (self.bus = get_bus()), which completes the new controller
GbReturn(c) ==
    /\ calls[c].pc = "gb_return"
    /\ IF calls[c].op = "get_bus"
       THEN /\ calls' = [calls EXCEPT ![c] = [@ EXCEPT
                            !.pc = "done", !.outcome = "returned",
                            !.result = session.bus]]
            /\ session' = session
       ELSE /\ session' = [session EXCEPT !.controllers = @ + 1]
            /\ calls' = [calls EXCEPT ![c].pc = "gc_store",
                                       ![c].args = <<session.controllers + 1,
                                                     session.bus>>]
    /\ UNCHANGED <<topic_handlers, wait_by_key, one_shot, subscribed, sent, nmsg,
                   prefix_handlers, dispatched, displaced, locks, delivery>>

\* `_controller = ` the controller built
GcStore(c) ==
    /\ calls[c].pc = "gc_store"
    /\ session' = [session EXCEPT
                      !.controller = Controller(calls[c].args[1], calls[c].args[2])]
    /\ calls' = [calls EXCEPT ![c].pc = "gc_return"]
    /\ UNCHANGED <<topic_handlers, wait_by_key, one_shot, subscribed, sent, nmsg,
                   prefix_handlers, dispatched, displaced, locks, delivery>>

\* `return _controller`
GcReturn(c) ==
    /\ calls[c].pc = "gc_return"
    /\ calls' = [calls EXCEPT ![c] = [@ EXCEPT
                    !.pc = "done", !.outcome = "returned",
                    !.result = session.controller]]
    /\ UNCHANGED <<topic_handlers, wait_by_key, one_shot, subscribed, sent, nmsg,
                   prefix_handlers, dispatched, displaced, locks, delivery, session>>

\* --------------------------------------------------------------------- rpc
\* body = dict(payload or {}); body.setdefault("transaction", corr);
\* body.setdefault("id", corr)
RpcBody(payload, corr) ==
    [payload EXCEPT !.transaction = IF @ = None THEN corr ELSE @,
                    !.id = IF @ = None THEN corr ELSE @]

\* uuid4().hex[:8]: a token no other call has drawn.
FreshId(corr) == \A d \in Calls : calls[d].corr # corr

\* rpc from its first statement to t0 = time.time(), for the token `corr`:
\* the body is built and published
RpcBegin(c, corr, payload) ==
    /\ CanStart(c)
    /\ sent' = [sent EXCEPT ![c] = Append(@, [topic |-> RequestTopic,
                                               body |-> RpcBody(payload, corr)])]
    /\ calls' = [calls EXCEPT ![c] = [@ EXCEPT
                    !.op = "rpc", !.pc = "rpc_check", !.topic = RequestTopic,
                    !.corr = corr, !.elapsed = 0,
                    !.stale = (corr \in DOMAIN wait_by_key)]]
    /\ UNCHANGED <<topic_handlers, wait_by_key, one_shot, subscribed, nmsg, prefix_handlers, dispatched, displaced,
                   locks, delivery, session>>

\* corr = uuid4().hex[:8] draws a token no other call has drawn
RpcPublish(c, corr, payload) == FreshId(corr) /\ RpcBegin(c, corr, payload)

\* Mutant: `while True`.
InBudget_Forever(c) == TRUE

\* Mutant: the loop gives up one poll interval early.
InBudget_Short(c) == calls[c].elapsed < Timeout - 1

\* the loop condition of rpc and wait_for: time.time() - t0 < timeout
InBudget(c) == calls[c].elapsed < Timeout

\* `while time.time() - t0 < timeout`, else raise TimeoutError
RpcCheck(c) ==
    /\ calls[c].pc = "rpc_check"
    /\ calls' = [calls EXCEPT ![c] =
                    IF InBudget(c) THEN [@ EXCEPT !.pc = "rpc_poll"]
                    ELSE Finish(c, "TimeoutError", EmptyObj)]
    /\ UNCHANGED <<topic_handlers, wait_by_key, one_shot, subscribed, sent, nmsg, prefix_handlers, dispatched, displaced,
                   locks, delivery, session>>

\* Mutant: rpc takes whatever entry the table holds.
PollKey_Any(tbl, corr) ==
    IF DOMAIN tbl # {} THEN CHOOSE k \in DOMAIN tbl : TRUE ELSE corr

\* the key rpc pops from the correlation table
PollKey(tbl, corr) == corr

\* Mutant: the topic of the entry is not looked at.
RpcMatches_AnyTopic(topic) == TRUE

\* topic.startswith(f"{Z2M_BASE}/bridge/response/")
RpcMatches(topic) == StartsWithSlash(topic, ResponsePrefix)

\* with lock: hit = pop(corr, None); if hit and its topic is a response topic,
\* return its payload; else time.sleep(0.02)
RpcPoll(c) ==
    /\ calls[c].pc = "rpc_poll"
    /\ Enter(c)
    /\ LET k == PollKey(wait_by_key, calls[c].corr)
       IN  IF k \in DOMAIN wait_by_key
           THEN /\ wait_by_key' = Pop(wait_by_key, k)
                /\ calls' = [calls EXCEPT ![c] =
                      IF RpcMatches(wait_by_key[k].topic)
                      THEN [Finish(c, "returned", wait_by_key[k].payload)
                              EXCEPT !.rtopic = wait_by_key[k].topic]
                      ELSE [@ EXCEPT !.pc = "rpc_sleep", !.sleep = 1]]
           ELSE /\ wait_by_key' = wait_by_key
                /\ calls' = [calls EXCEPT ![c].pc = "rpc_sleep", ![c].sleep = 1]
    /\ locks' = Unlock(c)
    /\ UNCHANGED <<topic_handlers, one_shot, subscribed, sent, nmsg, prefix_handlers, dispatched, displaced,
                   delivery, session>>

\* Mutant: the request is published again after every sleep.
RpcWake_Retry(c) ==
    /\ calls[c].pc = "rpc_sleep"
    /\ calls[c].sleep = 0
    /\ calls' = [calls EXCEPT ![c].pc = "rpc_check"]
    /\ sent' = [sent EXCEPT ![c] = Append(@, sent[c][1])]
    /\ UNCHANGED <<topic_handlers, wait_by_key, one_shot, subscribed, nmsg, prefix_handlers, dispatched, displaced,
                   locks, delivery, session>>

\* time.sleep(0.02) returns
RpcWake(c) ==
    /\ calls[c].pc = "rpc_sleep"
    /\ calls[c].sleep = 0
    /\ calls' = [calls EXCEPT ![c].pc = "rpc_check"]
    /\ UNCHANGED <<topic_handlers, wait_by_key, one_shot, subscribed, sent, nmsg, prefix_handlers, dispatched, displaced,
                   locks, delivery, session>>

\* ---------------------------------------------------------------- wait_for
\* Mutant: setdefault(topic, {}) keeps a slot that is already there.
CreateSlot_Keep(slots, topic) ==
    IF topic \in DOMAIN slots THEN slots ELSE Put(slots, topic, EmptyObj)

\* Mutant: wait_for subscribes without having created the slot.
CreateSlot_Dropped(slots, topic) == slots

\* with lock: self._one_shot[topic] = {}
CreateSlot(slots, topic) == Put(slots, topic, EmptyObj)

\* History: the wait_for calls outstanding on `topic`.
Waiting(cs, topic) ==
    {d \in Calls : cs[d].op = "wait_for" /\ cs[d].topic = topic
                      /\ cs[d].pc # "done"}
Overlap(cs, topic) ==
    [d \in Calls |-> IF d \in Waiting(cs, topic)
                     THEN [cs[d] EXCEPT !.other = TRUE] ELSE cs[d]]

WfCreate(c, topic) ==
    /\ CanStart(c)
    /\ Enter(c)
    /\ one_shot' = CreateSlot(one_shot, topic)
    /\ calls' = [Overlap(calls, topic) EXCEPT ![c] = [@ EXCEPT
                    !.op = "wait_for", !.pc = "wf_subscribe", !.topic = topic,
                    !.m_start = nmsg,
                    !.other = Waiting(calls, topic) # {}]]
    /\ locks' = Unlock(c)
    /\ UNCHANGED <<topic_handlers, wait_by_key, subscribed, sent, nmsg, prefix_handlers, dispatched, displaced,
                   delivery, session>>

\* self.client.subscribe(topic); t0 = time.time()
WfSubscribe(c) ==
    /\ calls[c].pc = "wf_subscribe"
    /\ subscribed' = subscribed \cup {calls[c].topic}
    /\ calls' = [calls EXCEPT ![c].pc = "wf_check", ![c].elapsed = 0,
                               ![c].redelivery = "owed"]
    /\ UNCHANGED <<topic_handlers, wait_by_key, one_shot, sent, nmsg, prefix_handlers, dispatched, displaced,
                   locks, delivery, session>>

\* `while time.time() - t0 < timeout`
WfCheck(c) ==
    /\ calls[c].pc = "wf_check"
    /\ calls' = [calls EXCEPT ![c].pc = IF InBudget(c) THEN "wf_poll" ELSE "wf_exit"]
    /\ UNCHANGED <<topic_handlers, wait_by_key, one_shot, subscribed, sent, nmsg, prefix_handlers, dispatched, displaced,
                   locks, delivery, session>>

\* with lock: pl = self._one_shot.get(topic, {}); if pl: pop and return pl;
\* else time.sleep(0.02)
WfPoll(c) ==
    /\ calls[c].pc = "wf_poll"
    /\ Enter(c)
    /\ LET t == calls[c].topic
           pl == IF t \in DOMAIN one_shot THEN one_shot[t] ELSE EmptyObj
       IN  IF Truthy(pl)
           THEN /\ one_shot' = Pop(one_shot, t)
                /\ calls' = [calls EXCEPT ![c] = Finish(c, "returned", pl)]
           ELSE /\ one_shot' = one_shot
                /\ calls' = [calls EXCEPT ![c].pc = "wf_sleep", ![c].sleep = 1]
    /\ locks' = Unlock(c)
    /\ UNCHANGED <<topic_handlers, wait_by_key, subscribed, sent, nmsg, prefix_handlers, dispatched, displaced,
                   delivery, session>>

\* time.sleep(0.02) returns
WfWake(c) ==
    /\ calls[c].pc = "wf_sleep"
    /\ calls[c].sleep = 0
    /\ calls' = [calls EXCEPT ![c].pc = "wf_check"]
    /\ UNCHANGED <<topic_handlers, wait_by_key, one_shot, subscribed, sent, nmsg, prefix_handlers, dispatched, displaced,
                   locks, delivery, session>>

\* after the loop: self._one_shot.pop(topic, None); return {}
WfExit(c) ==
    /\ calls[c].pc = "wf_exit"
    /\ one_shot' = Pop(one_shot, calls[c].topic)
    /\ calls' = [calls EXCEPT ![c] = Finish(c, "returned", EmptyObj)]
    /\ UNCHANGED <<topic_handlers, wait_by_key, subscribed, sent, nmsg, prefix_handlers, dispatched, displaced,
                   locks, delivery, session>>

\* The broker answers the subscribe request of call c with the retained
\* message of the topic; _on_message dispatches it like any other message.
Retained == Payload(None, None, -1)
DeliverRetained(c) ==
    /\ calls[c].redelivery = "owed"
    /\ nmsg < MaxMsgs
    /\ ~dispatched.raised
    /\ delivery.pc = "idle" /\ BusFree
    /\ HandlerLockFree(topic_handlers, calls[c].topic)
    /\ LET t == calls[c].topic
           prompt == Timing(c) /\ calls[c].elapsed = 0
           st == Dispatch(t, Retained)
       IN  /\ calls' = [Note(st.cs, t, Retained) EXCEPT
                          ![c].redelivery = IF prompt THEN "prompt" ELSE "late"]
           /\ wait_by_key' = st.wbk
           /\ one_shot' = st.slots
           /\ dispatched' = Outcome(st)
    /\ nmsg' = nmsg + 1
    /\ UNCHANGED <<topic_handlers, subscribed, sent, prefix_handlers, displaced,
                   locks, delivery, session>>

\* ------------------------------------------------- threads, step by step
\* The steps below follow the threads through the lock: taking the lock is a
\* step of its own, and so is each half of the delivery thread's
\* check-then-fill of a slot.
\* The caller thread c is at a `with self._lock:` statement.
AtLock(c) == calls[c].pc \in {"sds_register", "rpc_poll", "wf_poll"}

\* `with self._lock:` of a caller thread: the lock is taken
Acquire(c) ==
    /\ AtLock(c)
    /\ BusFree
    /\ locks' = [locks EXCEPT !.bus = c]
    /\ UNCHANGED <<topic_handlers, wait_by_key, one_shot, subscribed, sent, calls,
                   nmsg, prefix_handlers, dispatched, displaced, delivery, session>>

\* `with lock:` of set_device_state before `return confirmed_state`
AcquireCall(c) ==
    /\ calls[c].pc = "sds_woken"
    /\ locks.call[c] = None
    /\ locks' = [locks EXCEPT !.call[c] = "caller"]
    /\ UNCHANGED <<topic_handlers, wait_by_key, one_shot, subscribed, sent, calls,
                   nmsg, prefix_handlers, dispatched, displaced, delivery, session>>

\* paho calls _on_message(msg): topic and payload are read, the thread
\* stands before `with self._lock:`
Arrive(topic, payload) ==
    /\ nmsg < MaxMsgs
    /\ ~dispatched.raised
    /\ delivery.pc = "idle"
    /\ delivery' = [pc |-> "pending", topic |-> topic, payload |-> payload,
                    found |-> FALSE]
    /\ UNCHANGED <<topic_handlers, wait_by_key, one_shot, subscribed, sent, calls,
                   nmsg, prefix_handlers, dispatched, displaced, locks, session>>

\* `with self._lock:` of _on_message: the lock is taken
DeliverAcquire ==
    /\ delivery.pc = "pending"
    /\ BusFree
    /\ locks' = [locks EXCEPT !.bus = "delivery"]
    /\ delivery' = [delivery EXCEPT !.pc = "run"]
    /\ UNCHANGED <<topic_handlers, wait_by_key, one_shot, subscribed, sent, calls,
                   nmsg, prefix_handlers, dispatched, displaced, session>>

\* _on_message under the lock, up to and including the test
\* `if topic in self._one_shot`
\* A handler that calls back into the bus: its body is
\* bus.subscribe_topic(NS/<name>/set, h1), which starts with `with self._lock`.
Reentrant == {"hr"}
ExactReenters(topic) ==
    topic \in DOMAIN topic_handlers /\ topic_handlers[topic] \in Reentrant

\* Mutant: self._lock is a threading.RLock.
CanTake_Reentrant(who) == locks.bus \in {None, who}

\* Can thread `who` pass `with self._lock` now?  threading.Lock has no owner:
\* the thread that holds it waits like any other.
CanTake(who) == locks.bus = None

\* The handler calls and the correlation filing of _on_message.  The thread
\* stops inside a handler that calls back into the bus for as long as it
\* cannot take the lock (pc "handler").
DeliverRun ==
    /\ delivery.pc = "run"
    /\ HandlerLockFree(topic_handlers, delivery.topic)
    /\ LET t == delivery.topic
           p == delivery.payload
           st == CorrelateStep(InvokePrefix(InvokeExact(Begin, t, p), t, p), t, p)
       IN  IF ExactReenters(t) /\ ~CanTake("delivery")
           THEN /\ delivery' = [delivery EXCEPT !.pc = "handler"]
                /\ UNCHANGED <<calls, wait_by_key, dispatched, topic_handlers>>
           ELSE /\ calls' = Note(st.cs, t, p)
                /\ wait_by_key' = st.wbk
                /\ dispatched' = Outcome(st)
                /\ topic_handlers' =
                      IF ExactReenters(t)
                      THEN RegisterExact(topic_handlers, SetTopic(Dev), "h1")
                      ELSE topic_handlers
                /\ delivery' = [delivery EXCEPT !.pc = "fill",
                                                !.found = t \in DOMAIN one_shot]
    /\ UNCHANGED <<one_shot, subscribed, sent, nmsg,
                   prefix_handlers, displaced, locks, session>>

\* `self._one_shot[topic] = payload` when the test held; the with block
\* ends and _on_message returns
DeliverFill ==
    /\ delivery.pc = "fill"
    /\ one_shot' = IF delivery.found /\ ~dispatched.raised
                   THEN Put(one_shot, delivery.topic, delivery.payload)
                   ELSE one_shot
    /\ dispatched' = IF dispatched.raised THEN dispatched
                     ELSE [dispatched EXCEPT !.steps = Append(@, "fill")]
    /\ nmsg' = nmsg + 1
    /\ locks' = [locks EXCEPT !.bus = None]
    /\ delivery' = IdleDelivery
    /\ UNCHANGED <<topic_handlers, wait_by_key, subscribed, sent, calls,
                   prefix_handlers, displaced, session>>

\* ------------------------------------------- specification: command workflow
\* Messages the gateway (or the broker's echo) delivers in this scenario.
CmdTopics == {StateTopic(Dev), SetTopic(Dev)}
CmdPayloads == {EmptyObj, Payload(None, None, nmsg + 1)}

DispatchCmd == \E t \in CmdTopics, p \in CmdPayloads : OnMessage(t, p)

NextCmd ==
    \/ Tick
    \/ DispatchCmd
    \/ \E c \in Calls, f \in BOOLEAN : SdsValidate(c, f)
    \/ \E c \in Calls : SdsRegister(c)
    \/ \E c \in Calls : SdsSubscribe(c)
    \/ \E c \in Calls : SdsPublish(c)
    \/ \E c \in Calls : SdsWaitSignalled(c)
    \/ \E c \in Calls : SdsWaitTimeout(c)
    \/ \E c \in Calls : SdsReturn(c)

SpecCmd == Init /\ [][NextCmd]_vars

\* ----------------------------------------------------- specification: rpc
\* Messages delivered in this scenario: responses of the gateway and, through
\* the session's NS/# subscription, the broker's echo of requests.
RpcTopics == {RequestTopic, ResponseTopic}
RpcPayloads ==
    {Payload(id, id, 1) : id \in Ids} \cup {Payload("a1", "b2", 1)}
\* Request payloads the callers pass: all call sites pass no correlation field.
RpcArgs == {EmptyObj}

DispatchRpc == \E t \in RpcTopics, p \in RpcPayloads : OnMessage(t, p)

NextRpc ==
    \/ Tick
    \/ DispatchRpc
    \/ \E c \in Calls, id \in Ids, p \in RpcArgs : RpcPublish(c, id, p)
    \/ \E c \in Calls : RpcCheck(c)
    \/ \E c \in Calls : RpcPoll(c)
    \/ \E c \in Calls : RpcWake(c)

SpecRpc == Init /\ [][NextRpc]_vars

\* One caller thread, for termination: the thread keeps running and the clock
\* keeps advancing; nothing obliges the gateway to send a message.
LiveCalls == {"c1"}

NextRpcLive ==
    \/ Tick
    \/ DispatchRpc
    \/ \E c \in LiveCalls, id \in Ids, p \in RpcArgs : RpcPublish(c, id, p)
    \/ \E c \in LiveCalls : RpcCheck(c)
    \/ \E c \in LiveCalls : RpcPoll(c)
    \/ \E c \in LiveCalls : RpcWake(c)

SpecRpcFair ==
    /\ Init /\ [][NextRpcLive]_vars
    /\ WF_vars(Tick)
    /\ \A c \in LiveCalls : WF_vars(RpcCheck(c) \/ RpcPoll(c) \/ RpcWake(c))

\* ------------------------------------------------ specification: wait_for
WaitTopics == {StateTopic(Dev), SetTopic(Dev)}
WaitPayloads == {EmptyObj, Payload(None, None, nmsg + 1)}

DispatchWait == \E t \in WaitTopics, p \in WaitPayloads : OnMessage(t, p)

NextWait ==
    \/ Tick
    \/ DispatchWait
    \/ \E c \in Calls : WfCreate(c, StateTopic(Dev))
    \/ \E c \in Calls : WfSubscribe(c)
    \/ \E c \in Calls : WfCheck(c)
    \/ \E c \in Calls : WfPoll(c)
    \/ \E c \in Calls : WfWake(c)
    \/ \E c \in Calls : WfExit(c)

SpecWait == Init /\ [][NextWait]_vars

\* ------------------------------- specification: wait_for, retained message
\* The broker holds a retained message for the waited topic; the gateway may
\* publish fresh state as well.
FreshPayloads == {Payload(None, None, nmsg + 1)}
DispatchFresh == \E p \in FreshPayloads : OnMessage(StateTopic(Dev), p)

NextRetained ==
    \/ Tick
    \/ DispatchFresh
    \/ \E c \in Calls : DeliverRetained(c)
    \/ \E c \in Calls : WfCreate(c, StateTopic(Dev))
    \/ \E c \in Calls : WfSubscribe(c)
    \/ \E c \in Calls : WfCheck(c)
    \/ \E c \in Calls : WfPoll(c)
    \/ \E c \in Calls : WfWake(c)
    \/ \E c \in Calls : WfExit(c)

SpecRetained == Init /\ [][NextRetained]_vars

\* ------------------------------------------- specification: topic router
\* Other users of the bus register recording handlers and one caller starts
\* waiting for a snapshot while the broker delivers messages.
RouterTopics == {StateTopic(Dev), SetTopic(Dev)}
\* "zigbee2mqtt/" (the logger's STATE_PREFIX), "zigbee2mqtt/Light" and
\* "zigbee2mqtt/bridge/"
StatePrefix == Prefix(<<Z2M_BASE>>, "")
LightPrefix == Prefix(<<Z2M_BASE>>, "Light")
BridgePrefix == Prefix(<<Z2M_BASE, "bridge">>, "")
\* The subscribe_topic and subscribe_prefix calls made.
ExactRegs == {<<StateTopic(Dev), "h1">>, <<StateTopic(Dev), "h2">>,
              <<SetTopic(Dev), "hx">>}
PrefixRegs == {<<StatePrefix, "h1">>, <<LightPrefix, "hx">>,
               <<BridgePrefix, "h2">>}
\* Message bytes, given by what decoding does to them (see TryJson).
ParseError == [kind |-> "error", transaction |-> None, id |-> None, body |-> 0,
               raw |-> None]
Bytes(decodes, text, value) == [decodes |-> decodes, text |-> text, value |-> value]
\* b'{"transaction":"a1","state":"ON"}', b'[1]', b'offline', b'' and b'\xff'
ObjectBytes ==
    Bytes(TRUE, "{\"transaction\":\"a1\",\"state\":\"ON\"}", Payload("a1", None, 1))
ListBytes == Bytes(TRUE, "[1]", List(1))
TextBytes == Bytes(TRUE, "offline", ParseError)
EmptyBytes == Bytes(TRUE, "", ParseError)
BadUtf8Bytes == Bytes(FALSE, "", ParseError)
RouterBytes == {ObjectBytes, ListBytes}

DispatchRouter ==
    \/ \E d \in RouterBytes : OnMessage(StateTopic(Dev), TryJson(d))
    \/ OnMessage(SetTopic(Dev), TryJson(ObjectBytes))

NextRouter ==
    \/ DispatchRouter
    \/ \E r \in ExactRegs : SubscribeTopic(r[1], r[2])
    \/ \E r \in PrefixRegs : SubscribePrefix(r[1], r[2])
    \/ \E c \in LiveCalls : WfCreate(c, StateTopic(Dev))
    \/ \E c \in LiveCalls : WfSubscribe(c)

SpecRouter == Init /\ [][NextRouter]_vars

\* ------------------------------------- specification: bytes of every kind
\* The broker delivers bytes that parse and bytes that do not while a caller
\* waits for a snapshot and handlers are registered on its topic.
WireBytes == {ObjectBytes, TextBytes, EmptyBytes, BadUtf8Bytes}
DispatchWire == \E d \in WireBytes : OnMessage(StateTopic(Dev), TryJson(d))

NextWire ==
    \/ Tick
    \/ DispatchWire
    \/ SubscribeTopic(StateTopic(Dev), "h1")
    \/ SubscribePrefix(StatePrefix, "h2")
    \/ SubscribePrefix(BridgePrefix, "hx")
    \/ \E c \in LiveCalls : WfCreate(c, StateTopic(Dev))
    \/ \E c \in LiveCalls : WfSubscribe(c)
    \/ \E c \in LiveCalls : WfCheck(c)
    \/ \E c \in LiveCalls : WfPoll(c)
    \/ \E c \in LiveCalls : WfWake(c)
    \/ \E c \in LiveCalls : WfExit(c)

SpecWire == Init /\ [][NextWire]_vars

\* ------------------------------------------ specification: group commands
\* Callers of set_group_state with every combination of arguments, while the
\* gateway publishes the members' state and the broker echoes the commands.
GroupStates == {None, "ON"}
GroupBrightness == {None, "0"}
GroupColorTemps == {None, "153"}
DispatchGroup ==
    \E t \in {StateTopic(Dev), SetTopic(Group)} :
        OnMessage(t, Payload(None, None, nmsg + 1))

NextGroup ==
    \/ DispatchGroup
    \/ \E c \in Calls, st \in GroupStates, b \in GroupBrightness,
          ct \in GroupColorTemps : SetGroupState(c, st, b, ct)

SpecGroup == Init /\ [][NextGroup]_vars

\* ---------------------------------------------- specification: API routes
NextRoutes ==
    \E c \in Calls, route \in Routes :
        \E exc \in Raisable(route) : ApiRequest(c, route, exc)

SpecRoutes == Init /\ [][NextRoutes]_vars

\* ------------------------------------ specification: the three operations
\* Callers of rpc, set_device_state and wait_for side by side; the gateway
\* publishes device state and answers the request that carries id a1.
DispatchCore ==
    \/ OnMessage(StateTopic(Dev), Payload(None, None, nmsg + 1))
    \/ OnMessage(ResponseTopic, Payload("a1", "a1", 1))

NextCore ==
    \/ Tick
    \/ DispatchCore
    \/ \E c \in Calls, f \in BOOLEAN : SdsValidate(c, f)
    \/ \E c \in Calls : SdsRegister(c)
    \/ \E c \in Calls : SdsSubscribe(c)
    \/ \E c \in Calls : SdsPublish(c)
    \/ \E c \in Calls : SdsWaitSignalled(c)
    \/ \E c \in Calls : SdsWaitTimeout(c)
    \/ \E c \in Calls : SdsReturn(c)
    \/ \E c \in Calls, id \in Ids, p \in RpcArgs : RpcPublish(c, id, p)
    \/ \E c \in Calls : RpcCheck(c)
    \/ \E c \in Calls : RpcPoll(c)
    \/ \E c \in Calls : RpcWake(c)
    \/ \E c \in Calls : WfCreate(c, StateTopic(Dev))
    \/ \E c \in Calls : WfSubscribe(c)
    \/ \E c \in Calls : WfCheck(c)
    \/ \E c \in Calls : WfPoll(c)
    \/ \E c \in Calls : WfWake(c)
    \/ \E c \in Calls : WfExit(c)

SpecCore == Init /\ [][NextCore]_vars

\* ------------------------------------- specification: threads and the lock
\* One thread calls wait_for or rpc, another set_device_state, others
\* register handlers; all run against the delivery thread, every thread step
\* by step.  The gateway publishes the device's state, tagged with the
\* request it answers.
LockPayloads == {Payload("a1", None, nmsg + 1)}
\* The thread that calls set_device_state.
CmdCalls == {"c2"}

\* The steps of a caller thread once its call has begun.
Run(c) ==
    \/ Acquire(c) \/ AcquireCall(c)
    \/ SdsRegister(c) \/ SdsSubscribe(c) \/ SdsPublish(c)
    \/ SdsWaitSignalled(c) \/ SdsWaitTimeout(c) \/ SdsReturn(c)
    \/ RpcCheck(c) \/ RpcPoll(c) \/ RpcWake(c)
    \/ WfSubscribe(c) \/ WfCheck(c) \/ WfPoll(c) \/ WfWake(c) \/ WfExit(c)

NextLock ==
    \/ Tick
    \/ \E p \in LockPayloads : Arrive(StateTopic(Dev), p)
    \/ DeliverAcquire
    \/ DeliverRun
    \/ DeliverFill
    \/ SubscribeTopic(StateTopic(Dev), "h1")
    \/ SubscribePrefix(BridgePrefix, "h2")
    \/ \E c \in CmdCalls : SdsValidate(c, TRUE)
    \/ \E c \in LiveCalls, p \in RpcArgs : RpcPublish(c, "a1", p)
    \/ \E c \in LiveCalls : WfCreate(c, StateTopic(Dev))
    \/ \E c \in Calls : Run(c)

SpecLock == Init /\ [][NextLock]_vars

\* The same threads without the registrations, for progress: every thread
\* that can take a step eventually takes one, and the clock advances; nothing
\* obliges a call to begin or a message to arrive.
LivePayloads == {Payload("a1", None, 1)}

NextLockLive ==
    \/ Tick
    \/ \E p \in LivePayloads : Arrive(StateTopic(Dev), p)
    \/ DeliverAcquire
    \/ DeliverRun
    \/ DeliverFill
    \/ \E c \in CmdCalls : SdsValidate(c, TRUE)
    \/ \E c \in LiveCalls, p \in RpcArgs : RpcPublish(c, "a1", p)
    \/ \E c \in LiveCalls : WfCreate(c, StateTopic(Dev))
    \/ \E c \in Calls : Run(c)

SpecLockFair ==
    /\ Init /\ [][NextLockLive]_vars
    /\ WF_vars(Tick)
    /\ WF_vars(DeliverAcquire) /\ WF_vars(DeliverRun) /\ WF_vars(DeliverFill)
    /\ \A c \in Calls : WF_vars(Run(c))

\* ---------------------------------------------- specification: singletons
\* Threads ask for the bus, directly or through get_controller().
NextSession ==
    \/ \E c \in Calls : GbStart(c)
    \/ \E c \in Calls : GcCheck(c)
    \/ \E c \in Calls : GbCheck(c)
    \/ \E c \in Calls : GbBuild(c)
    \/ \E c \in Calls : GbStore(c)
    \/ \E c \in Calls : GbReturn(c)
    \/ \E c \in Calls : GcStore(c)
    \/ \E c \in Calls : GcReturn(c)

SpecSession == Init /\ [][NextSession]_vars

\* --------------------------------------- specification: rpc, corner cases
\* Two rpc calls whose tokens collide (uuid4().hex[:8] has 32 bits), with
\* request payloads that may already hold a correlation field; the gateway
\* answers with the correlation field it was sent.
EdgeArgs == {EmptyObj, Payload("zz", None, 0), Payload(None, "zz", 0)}
EdgeIds == {"a1"}
DispatchEdge ==
    \E id \in EdgeIds \cup {"zz"} :
        OnMessage(ResponseTopic, Payload(id, id, nmsg + 1))

NextEdge ==
    \/ Tick
    \/ DispatchEdge
    \/ \E c \in Calls, id \in EdgeIds, p \in EdgeArgs : RpcBegin(c, id, p)
    \/ \E c \in Calls : RpcCheck(c)
    \/ \E c \in Calls : RpcPoll(c)
    \/ \E c \in Calls : RpcWake(c)

SpecEdge == Init /\ [][NextEdge]_vars

\* ------------------------------------ specification: correlation table
\* One thread calls rpc, another waits for a snapshot of the response topic,
\* others register handlers; the gateway answers the request and sends
\* responses nobody asked for (id zz).
TableIds == {"a1", "zz"}
SnapCalls == {"c2"}
DispatchTable ==
    \E id \in TableIds : OnMessage(ResponseTopic, Payload(id, id, nmsg + 1))

NextTable ==
    \/ Tick
    \/ DispatchTable
    \/ SubscribeTopic(ResponseTopic, "h1")
    \/ SubscribePrefix(BridgePrefix, "h2")
    \/ \E c \in LiveCalls, p \in RpcArgs : RpcPublish(c, "a1", p)
    \/ \E c \in LiveCalls : RpcCheck(c)
    \/ \E c \in LiveCalls : RpcPoll(c)
    \/ \E c \in LiveCalls : RpcWake(c)
    \/ \E c \in SnapCalls : WfCreate(c, ResponseTopic)
    \/ \E c \in SnapCalls : WfSubscribe(c)
    \/ \E c \in SnapCalls : WfCheck(c)
    \/ \E c \in SnapCalls : WfPoll(c)
    \/ \E c \in SnapCalls : WfWake(c)
    \/ \E c \in SnapCalls : WfExit(c)

SpecTable == Init /\ [][NextTable]_vars

\* ---------------------------------------- specification: wildcard prefixes
\* Handlers are registered through subscribe_prefix with a literal prefix and
\* with patterns that hold a wildcard: "zigbee2mqtt/+/availability" and
\* "zigbee2mqtt/#", and one through subscribe_topic for the availability
\* topic.  The gateway publishes state and availability.
AvailTopic(fn) == <<Z2M_BASE, fn, "availability">>
PlusPrefix == Prefix(<<Z2M_BASE, "+">>, "availability")
HashPrefix == Prefix(<<Z2M_BASE>>, "#")
WildRegs == {<<PlusPrefix, "h1">>, <<HashPrefix, "h2">>, <<StatePrefix, "hx">>}
WildTopics == {AvailTopic(Dev), StateTopic(Dev)}

DispatchWild ==
    \E t \in WildTopics : OnMessage(t, Payload(None, None, nmsg + 1))

NextWild ==
    \/ DispatchWild
    \/ \E r \in WildRegs : SubscribePrefix(r[1], r[2])
    \/ SubscribeTopic(AvailTopic(Dev), "h1")

SpecWild == Init /\ [][NextWild]_vars


\* -------------------------------------------------- correlation key choice
\* Payloads with each correlation field absent, empty or set, and a JSON
\* array; call c1 waits for id "a1".
KeyFields == {None, "", "a1", "b2"}
KeyPayloads == {Payload(tx, id, 1) : tx \in KeyFields, id \in KeyFields \ {"b2"}}
                 \cup {List(1)}
DispatchKey == \E p \in KeyPayloads : OnMessage(ResponseTopic, p)

NextKey ==
    \/ Tick
    \/ DispatchKey
    \/ \E c \in LiveCalls, p \in RpcArgs : RpcPublish(c, "a1", p)
    \/ \E c \in LiveCalls : RpcCheck(c)
    \/ \E c \in LiveCalls : RpcPoll(c)
    \/ \E c \in LiveCalls : RpcWake(c)

SpecKey == Init /\ [][NextKey]_vars


\* -------------------------------------- two wait_for callers, step by step
\* Both callers wait on NS/Light1 while the delivery thread runs _on_message
\* one statement group at a time.
NextShare ==
    \/ Tick
    \/ \E p \in LockPayloads : Arrive(StateTopic(Dev), p)
    \/ DeliverAcquire
    \/ DeliverRun
    \/ DeliverFill
    \/ \E c \in Calls : WfCreate(c, StateTopic(Dev))
    \/ \E c \in Calls : WfSubscribe(c)
    \/ \E c \in Calls : WfCheck(c)
    \/ \E c \in Calls : WfPoll(c)
    \/ \E c \in Calls : WfWake(c)
    \/ \E c \in Calls : WfExit(c)

SpecShare == Init /\ [][NextShare]_vars


\* ------------------------------------- a handler that calls back into the bus
\* A handler that re-enters the bus is registered for NS/Light1; c1 makes an
\* rpc call, c2 a wait_for call, and another thread registers a handler.
NextReenter ==
    \/ Tick
    \/ \E p \in LivePayloads : Arrive(StateTopic(Dev), p)
    \/ DeliverAcquire
    \/ DeliverRun
    \/ DeliverFill
    \/ SubscribeTopic(StateTopic(Dev), "hr")
    \/ SubscribePrefix(BridgePrefix, "h2")
    \/ \E c \in LiveCalls, p \in RpcArgs : RpcPublish(c, "a1", p)
    \/ \E c \in LiveCalls : RpcCheck(c)
    \/ \E c \in LiveCalls : RpcPoll(c)
    \/ \E c \in LiveCalls : RpcWake(c)
    \/ \E c \in SnapCalls : WfCreate(c, StateTopic(Dev))
    \/ \E c \in SnapCalls : WfSubscribe(c)
    \/ \E c \in SnapCalls : WfCheck(c)
    \/ \E c \in SnapCalls : WfPoll(c)
    \/ \E c \in SnapCalls : WfWake(c)
    \/ \E c \in SnapCalls : WfExit(c)

SpecReenter == Init /\ [][NextReenter]_vars


\* ------------------------------------------- messages with empty payloads
\* b'{}' and b'[]' next to b'' and a non-empty object, on the state topic of
\* the device, while c1 waits for a snapshot and c2 sets the device state.
EmptyObjBytes == Bytes(TRUE, "{}", EmptyObj)
EmptyListBytes == Bytes(TRUE, "[]", List(0))
EmptyKinds == {EmptyBytes, EmptyObjBytes, EmptyListBytes}
DispatchEmpty ==
    \E d \in EmptyKinds \cup {ObjectBytes} : OnMessage(StateTopic(Dev), TryJson(d))

NextEmpty ==
    \/ Tick
    \/ DispatchEmpty
    \/ \E c \in LiveCalls : WfCreate(c, StateTopic(Dev))
    \/ \E c \in LiveCalls : WfSubscribe(c)
    \/ \E c \in LiveCalls : WfCheck(c)
    \/ \E c \in LiveCalls : WfPoll(c)
    \/ \E c \in LiveCalls : WfWake(c)
    \/ \E c \in LiveCalls : WfExit(c)
    \/ \E c \in CmdCalls : SdsValidate(c, TRUE)
    \/ \E c \in CmdCalls : SdsRegister(c)
    \/ \E c \in CmdCalls : SdsSubscribe(c)
    \/ \E c \in CmdCalls : SdsPublish(c)
    \/ \E c \in CmdCalls : SdsWaitSignalled(c)
    \/ \E c \in CmdCalls : SdsWaitTimeout(c)
    \/ \E c \in CmdCalls : SdsReturn(c)

SpecEmpty == Init /\ [][NextEmpty]_vars


\* ------------------------------------------ controller methods over the bus
\* DeviceController methods that make one rpc call, and those that make one
\* wait_for call.
RpcMethods == {"get_bridge_health", "get_bridge_info", "permit_join", "get_groups"}
WaitMethods == {"get_device_state", "list_devices"}
DevicesTopic == <<Z2M_BASE, "bridge", "devices">>
MethodTopic(method) ==
    IF method = "list_devices" THEN DevicesTopic ELSE StateTopic(Dev)

\* A thread calls the controller method.
CtlEnter(c, method) ==
    /\ calls[c].pc = "idle" /\ calls[c].args = << >>
    /\ calls' = [calls EXCEPT ![c].args = <<method>>]
    /\ UNCHANGED <<topic_handlers, wait_by_key, one_shot, subscribed, sent, nmsg,
                   prefix_handlers, dispatched, displaced, locks, delivery, session>>

\* response = self.bus.rpc(<request topic>, <body>, timeout)
CtlRpc(c, corr, payload) ==
    /\ calls[c].args # << >> /\ calls[c].args[1] \in RpcMethods
    /\ RpcPublish(c, corr, payload)

\* state = self.bus.wait_for(<topic>, timeout)
CtlWait(c) ==
    /\ calls[c].args # << >> /\ calls[c].args[1] \in WaitMethods
    /\ WfCreate(c, MethodTopic(calls[c].args[1]))

\* Mutant: get_device_state and list_devices return what wait_for gave them.
Surfaces_RpcOnly(method, outcome, result) ==
    method \in RpcMethods /\ outcome = "TimeoutError"

\* Does the method raise DeviceTimeoutError?  `except TimeoutError` around
\* the rpc call; `if not state` / `if not devices_data` after wait_for.
Surfaces(method, outcome, result) ==
    IF method \in RpcMethods THEN outcome = "TimeoutError" ELSE ~Truthy(result)

\* What the method returns from what the bus call gave it.  The data and
\* devices members are the content of the payload apart from its correlation
\* fields.
Value(method, result) ==
    CASE method = "get_bridge_info" -> Payload(None, None, result.body)
      [] method = "get_groups" -> List(result.body)
      [] method = "list_devices" ->
            IF result.kind = "list" THEN result ELSE List(result.body)
      [] OTHER -> result

\* The bus call has ended: the method raises or returns.
CtlReturn(c) ==
    /\ calls[c].pc = "done" /\ calls[c].args # << >>
    /\ calls[c].inner.outcome = "none"
    /\ LET m == calls[c].args[1]
           o == calls[c].outcome
           r == calls[c].result
       IN  calls' = [calls EXCEPT ![c] = [@ EXCEPT
               !.inner = [outcome |-> o, result |-> r],
               !.outcome = IF Surfaces(m, o, r) THEN "DeviceTimeoutError"
                           ELSE IF o = "returned" THEN "returned" ELSE o,
               !.result = IF Surfaces(m, o, r) \/ o # "returned" THEN EmptyObj
                          ELSE Value(m, r)]]
    /\ UNCHANGED <<topic_handlers, wait_by_key, one_shot, subscribed, sent, nmsg,
                   prefix_handlers, dispatched, displaced, locks, delivery, session>>

\* c1 calls an rpc method, c2 a wait_for method; responses, device states and
\* device lists (empty and not) are dispatched.
DispatchCtl ==
    \/ OnMessage(ResponseTopic, Payload("a1", None, 1))
    \/ OnMessage(StateTopic(Dev), Payload(None, None, 1))
    \/ \E p \in {List(0), List(1)} : OnMessage(DevicesTopic, p)

NextCtl ==
    \/ Tick
    \/ DispatchCtl
    \/ \E c \in LiveCalls, m \in RpcMethods : CtlEnter(c, m)
    \/ \E c \in SnapCalls, m \in WaitMethods : CtlEnter(c, m)
    \/ \E c \in LiveCalls, p \in RpcArgs : CtlRpc(c, "a1", p)
    \/ \E c \in LiveCalls : RpcCheck(c)
    \/ \E c \in LiveCalls : RpcPoll(c)
    \/ \E c \in LiveCalls : RpcWake(c)
    \/ \E c \in SnapCalls : CtlWait(c)
    \/ \E c \in SnapCalls : WfSubscribe(c)
    \/ \E c \in SnapCalls : WfCheck(c)
    \/ \E c \in SnapCalls : WfPoll(c)
    \/ \E c \in SnapCalls : WfWake(c)
    \/ \E c \in SnapCalls : WfExit(c)
    \/ \E c \in Calls : CtlReturn(c)

SpecCtl == Init /\ [][NextCtl]_vars

\* ------------------------------------------------------------------ claims
IsSds(c) == calls[c].op = "set_device_state"
IsRpc(c) == calls[c].op = "rpc"
IsWait(c) == calls[c].op = "wait_for"
Returned(c) == calls[c].pc = "done" /\ calls[c].outcome = "returned"
Raised(c, e) == calls[c].pc = "done" /\ calls[c].outcome = e
IsResponse(h) == StartsWithSlash(h.t, ResponsePrefix)
\* No other call has been started.
Alone(c) == \A d \in Calls \ {c} : calls[d].op = "none"
\* The other rpc calls use other correlation ids.
DistinctId(c) == \A d \in Calls \ {c} : IsRpc(d) => calls[d].corr # calls[c].corr

\* C1: whenever set_device_state publishes its command to NS/<name>/set, an
\* exact handler for the state topic NS/<name> is already in the
\* exact-handler table (registration strictly precedes the publish).
C1_HandlerBeforePublish ==
    [][\A c \in Calls :
          (calls'[c].op = "set_device_state" /\ sent'[c] # sent[c])
             => StateTopic(Dev) \in DOMAIN topic_handlers]_vars
C1_Witness ==
    \E c \in Calls : /\ IsSds(c)
                     /\ Len(sent[c]) = 1 /\ sent[c][1].topic = SetTopic(Dev)
                     /\ StateTopic(Dev) \in DOMAIN topic_handlers

\* C2: a set_device_state call during which no other exact handler was put on
\* its state topic does not raise DeviceTimeoutError if a message was
\* dispatched on the state topic after its publish and before it ended.
C2_NoMissedConfirmation ==
    \A c \in Calls :
        (IsSds(c) /\ Raised(c, "DeviceTimeoutError") /\ ~calls[c].other)
           => \A h \in calls[c].heard : ~h.published
C2_Witness ==
    \E c \in Calls : /\ IsSds(c) /\ Returned(c) /\ ~calls[c].other
                     /\ \E h \in calls[c].heard :
                           h.published /\ h.intime /\ h.p = calls[c].result

\* C3: set_device_state with no control field raises ValueError in its first
\* step, which leaves the handler table, the broker subscriptions, the
\* published messages and the other tables unchanged; the call publishes and
\* registers nothing afterwards either.
C3_ValidationBeforeEffects ==
    [][\A c \in Calls :
          /\ (calls[c].pc = "idle" /\ calls'[c].op = "set_device_state"
                /\ ~calls'[c].has_field)
               => /\ calls'[c].pc = "done" /\ calls'[c].outcome = "ValueError"
                  /\ UNCHANGED <<topic_handlers, subscribed, sent, one_shot,
                                 wait_by_key>>
          /\ calls[c].outcome = "ValueError"
               => /\ sent'[c] = << >>
                  /\ \A t \in DOMAIN topic_handlers' : topic_handlers'[t] # c]_vars
C3_Witness ==
    \E c \in Calls : /\ IsSds(c) /\ ~calls[c].has_field
                     /\ Raised(c, "ValueError") /\ sent[c] = << >>

\* C4: with pairwise distinct correlation ids, an rpc call that returns does
\* so with a payload whose correlation field is its own id, never another
\* call's.
C4_RpcIsolation ==
    \A c \in Calls :
        (IsRpc(c) /\ Returned(c) /\ DistinctId(c))
           => /\ CorrKey(calls[c].result) = calls[c].corr
              /\ \A d \in Calls \ {c} :
                    IsRpc(d) => CorrKey(calls[c].result) # calls[d].corr
C4_Witness ==
    \E c, d \in Calls :
        /\ c # d /\ IsRpc(c) /\ IsRpc(d) /\ Returned(c) /\ Returned(d)
        /\ calls[c].corr # calls[d].corr
        /\ CorrKey(calls[c].result) = calls[c].corr
        /\ CorrKey(calls[d].result) = calls[d].corr

\* C5: the payload an rpc call returns comes from a correlation entry whose
\* topic is under NS/bridge/response/, also when a message carrying the call's
\* id was dispatched on another topic during the call.
C5_OnlyResponseTopic ==
    \A c \in Calls :
        (IsRpc(c) /\ Returned(c)) => StartsWithSlash(calls[c].rtopic, ResponsePrefix)
C5_Witness ==
    \E c \in Calls : /\ IsRpc(c) /\ Returned(c)
                     /\ calls[c].rtopic = ResponseTopic
                     /\ \E h \in calls[c].heard : h.t = RequestTopic

\* C6 (as claimed): an rpc call for which a message carrying its id was
\* dispatched on a response topic after the publish and before its timeout
\* elapsed returns (it does not raise TimeoutError); stated for calls whose
\* thread was never kept from running.
C6_ResponseInTimeReturned ==
    \A c \in Calls :
        (IsRpc(c) /\ calls[c].pc = "done" /\ DistinctId(c) /\ ~calls[c].stalled
           /\ \E h \in calls[c].heard : IsResponse(h) /\ h.intime)
           => calls[c].outcome = "returned"

\* C7: every rpc call ends, either returning a non-empty payload filed under
\* its own id or raising TimeoutError; a call whose id was not in the table
\* when it published returns only a payload dispatched for it on a response
\* topic during the call, so without one it ends by TimeoutError.
C7_RpcEnds ==
    \A c \in Calls :
        (IsRpc(c) /\ calls[c].pc = "done")
           => /\ calls[c].outcome \in {"returned", "TimeoutError"}
              /\ calls[c].outcome = "returned"
                   => /\ Truthy(calls[c].result)
                      /\ CorrKey(calls[c].result) = calls[c].corr
                      /\ ~calls[c].stale
                           => \E h \in calls[c].heard :
                                 IsResponse(h) /\ h.p = calls[c].result
C7_RpcTerminates ==
    /\ []C7_RpcEnds
    /\ \A c \in Calls : IsRpc(c) ~> (calls[c].pc = "done")
C7_Witness ==
    \E c \in Calls : /\ IsRpc(c) /\ Raised(c, "TimeoutError")
                     /\ \E k \in DOMAIN wait_by_key :
                           k # calls[c].corr /\ RpcMatches(wait_by_key[k].topic)

\* C8 (as claimed): the non-empty payload a wait_for call returns is the
\* earliest of the messages dispatched on its topic since it created its slot.
C8_ReturnsFirst ==
    \A c \in Calls :
        (IsWait(c) /\ Returned(c) /\ Truthy(calls[c].result) /\ Alone(c)
           /\ \A h \in calls[c].heard : Truthy(h.p))
           => \A h \in calls[c].heard : calls[c].result.body <= h.p.body

\* C9 (as claimed): a wait_for call, alone on its topic, for which a message
\* with a non-empty payload was dispatched after it created its slot and
\* before its timeout elapsed returns a non-empty payload; stated for calls
\* whose thread was never kept from running.
C9_NoLostSnapshot ==
    \A c \in Calls :
        (IsWait(c) /\ calls[c].pc = "done" /\ Alone(c) /\ ~calls[c].stalled
           /\ (\A h \in calls[c].heard : Truthy(h.p))
           /\ \E h \in calls[c].heard : h.intime)
           => Truthy(calls[c].result)

\* C10: a non-empty payload returned by wait_for was dispatched after the call
\* created its slot (message n carries body n; m_start messages had been
\* dispatched when the slot was created).
C10_NoStalePayload ==
    \A c \in Calls :
        (IsWait(c) /\ Returned(c) /\ Truthy(calls[c].result))
           => calls[c].result.body > calls[c].m_start
C10_Witness ==
    \E c, d \in Calls :
        /\ c # d /\ IsWait(c) /\ IsWait(d)
        /\ calls[d].pc = "done"
        /\ Returned(c) /\ Truthy(calls[c].result)
        /\ calls[c].m_start >= 1

\* C11: a wait_for call, alone on its topic, has its slot in the table when
\* it requests the broker subscription; if the broker's retained message is
\* then dispatched before a poll interval has passed and nothing else is
\* published on the topic, the call returns the retained message and has
\* published nothing (stated for calls whose thread was never kept from
\* running).
C11_RetainedReturned ==
    \A c \in Calls :
        (IsWait(c) /\ ~calls[c].other)
           => /\ calls[c].pc = "wf_subscribe" => calls[c].topic \in DOMAIN one_shot
              /\ (calls[c].pc = "done" /\ ~calls[c].stalled
                    /\ calls[c].redelivery = "prompt"
                    /\ \A h \in calls[c].heard : h.p = Retained)
                   => /\ Returned(c) /\ calls[c].result = Retained
                      /\ sent[c] = << >>
C11_Witness ==
    \E c \in Calls : /\ IsWait(c) /\ ~calls[c].other /\ ~calls[c].stalled
                     /\ calls[c].redelivery = "prompt"
                     /\ Returned(c) /\ calls[c].result = Retained
                     /\ nmsg = 1 /\ sent[c] = << >>

\* C12 (as claimed): the payload a set_device_state call returns is the
\* earliest of the messages dispatched on its state topic after it registered
\* its handler and before it read confirmed_state (message n carries body n).
C12_ReturnsFirstObserved ==
    \A c \in Calls :
        (IsSds(c) /\ Returned(c) /\ Alone(c)
           /\ \A h \in calls[c].heard : Truthy(h.p))
           => \A h \in calls[c].heard : calls[c].result.body <= h.p.body

\* C13: a step in which an rpc call raises TimeoutError or a set_device_state
\* call raises DeviceTimeoutError is taken only when the whole wait budget
\* has elapsed since the call started waiting, and a set_device_state call
\* that raised had no message dispatched to its handler.
C13_TimeoutAfterBudget ==
    [][\A c \in Calls :
          /\ (calls[c].pc # "done"
                /\ calls'[c].outcome \in {"TimeoutError", "DeviceTimeoutError"})
               => /\ calls[c].elapsed >= Timeout
                  /\ calls[c].pc \in {"rpc_check", "sds_wait"}
          /\ calls'[c].outcome = "DeviceTimeoutError"
               => \A h \in calls'[c].heard : ~h.own]_vars
C13_Witness ==
    /\ \E c \in Calls : IsRpc(c) /\ Raised(c, "TimeoutError")
    /\ \E c \in Calls : /\ IsSds(c) /\ Raised(c, "DeviceTimeoutError")
                         /\ calls[c].elapsed >= Timeout

\* C14: at every moment an rpc call has published exactly one message, its
\* request; a set_device_state call has published nothing before its publish
\* step (and nothing at all when validation failed) and exactly one message,
\* its command on NS/<name>/set, from then on; a wait_for call has published
\* nothing.  This includes the calls that ended by a timeout.
C14_NoRetry ==
    \A c \in Calls :
        /\ IsRpc(c) => Len(sent[c]) = 1 /\ sent[c][1].topic = RequestTopic
        /\ IsSds(c) =>
              IF calls[c].has_field
                 /\ calls[c].pc \in {"sds_wait", "sds_woken", "done"}
              THEN Len(sent[c]) = 1 /\ sent[c][1].topic = SetTopic(Dev)
              ELSE sent[c] = << >>
        /\ IsWait(c) => sent[c] = << >>
        /\ calls[c].op = "none" => sent[c] = << >>
C14_Witness ==
    \E c, d \in Calls :
        /\ IsRpc(c) /\ Raised(c, "TimeoutError") /\ Len(sent[c]) = 1
        /\ \/ IsSds(d) /\ Raised(d, "DeviceTimeoutError") /\ Len(sent[d]) = 1
           \/ IsWait(d) /\ Returned(d) /\ ~Truthy(calls[d].result)
                       /\ sent[d] = << >>

\* What one run of _on_message on (t, p) must leave behind, read from the
\* tables as they are when it starts.
ExactCalls(inv) == {i \in DOMAIN inv : inv[i].how = "exact"}
PrefixCalls(inv, prefix) ==
    {i \in DOMAIN inv : inv[i].how = "prefix" /\ inv[i].key = prefix}
ExactDue(t) == t \in DOMAIN topic_handlers /\ topic_handlers[t] \in Handlers
MatchingPrefixes(t) ==
    {k \in DOMAIN prefix_handlers : StartsWith(t, prefix_handlers[k].prefix)}
HandlersInvoked(t, p) ==
    LET inv == dispatched'.invoked
    IN  /\ \A i \in DOMAIN inv : inv[i].topic = t /\ inv[i].payload = p
        /\ IF ExactDue(t)
           THEN /\ ExactCalls(inv) = {1}
                /\ inv[1].h = topic_handlers[t] /\ inv[1].key = t
           ELSE ExactCalls(inv) = {}
        /\ \A k \in DOMAIN prefix_handlers :
              LET hit == PrefixCalls(inv, prefix_handlers[k].prefix)
              IN  IF k \in MatchingPrefixes(t)
                  THEN /\ Cardinality(hit) = 1
                       /\ \A i \in hit : inv[i].h = prefix_handlers[k].handler
                  ELSE hit = {}
        /\ Len(inv) = (IF ExactDue(t) THEN 1 ELSE 0)
                        + Cardinality(MatchingPrefixes(t))
TablesWritten(t, p) ==
    /\ wait_by_key' = IF IsDict(p) /\ CorrKey(p) # ""
                      THEN Put(wait_by_key, CorrKey(p),
                               [topic |-> t, payload |-> p])
                      ELSE wait_by_key
    /\ one_shot' = IF t \in DOMAIN one_shot THEN Put(one_shot, t, p)
                   ELSE one_shot
Completed ==
    /\ dispatched'.steps = <<"exact", "prefix", "correlate", "fill">>
    /\ ~dispatched'.raised
Routed(t, p) == HandlersInvoked(t, p) /\ TablesWritten(t, p) /\ Completed

\* C15: a run of _on_message on (T, payload) goes through its four blocks in
\* order (exact handler, prefix handlers, correlation entry, slot); it invokes
\* the exact handler registered for T once and first, every prefix handler
\* whose prefix T starts with once, and no other handler; it files (T,
\* payload) under the payload's correlation key when the payload is an object
\* with one, and fills the slot of T when there is one.
C15_DispatchOrder ==
    [][nmsg' # nmsg =>
          \A t \in RouterTopics, d \in RouterBytes :
             OnMessage(t, TryJson(d)) => Routed(t, TryJson(d))]_vars
C15_Witness ==
    LET inv == dispatched.invoked
    IN  /\ Len(inv) >= 3
        /\ inv[1].how = "exact" /\ inv[1].topic = StateTopic(Dev)
        /\ inv[2].how = "prefix" /\ inv[3].how = "prefix"
        /\ "a1" \in DOMAIN wait_by_key
        /\ wait_by_key["a1"] = [topic |-> StateTopic(Dev), payload |-> inv[1].payload]
        /\ StateTopic(Dev) \in DOMAIN one_shot
        /\ one_shot[StateTopic(Dev)] = inv[1].payload
        /\ SetTopic(Dev) \in DOMAIN topic_handlers
        /\ \E k \in DOMAIN prefix_handlers :
              prefix_handlers[k].prefix = BridgePrefix

\* C16: no exception ever leaves _on_message; a run in which a matching
\* handler raises, and every run after one in which a handler raised, still
\* invokes every matching handler once, writes the correlation entry and the
\* slot, and completes.
FaultNow(t) ==
    \/ ExactDue(t) /\ Raises(topic_handlers[t])
    \/ \E k \in MatchingPrefixes(t) : Raises(prefix_handlers[k].handler)
FaultBefore == dispatched.earlier_fault \/ Faulty(dispatched.invoked)
C16_FaultIsolation ==
    /\ [](~dispatched.raised)
    /\ [][nmsg' # nmsg =>
             \A t \in RouterTopics, d \in RouterBytes :
                (OnMessage(t, TryJson(d)) /\ (FaultNow(t) \/ FaultBefore))
                   => Routed(t, TryJson(d))]_vars
C16_Witness ==
    LET inv == dispatched.invoked
    IN  /\ dispatched.earlier_fault
        /\ \E i, j \in DOMAIN inv : i < j /\ Raises(inv[i].h) /\ ~Raises(inv[j].h)
        /\ StateTopic(Dev) \in DOMAIN one_shot
        /\ one_shot[StateTopic(Dev)] = inv[1].payload
        /\ CorrKey(inv[1].payload) \in DOMAIN wait_by_key
        /\ ~dispatched.raised

\* Bytes that json.loads does not accept.
NotJson(d) == ~d.decodes \/ d.value.kind = "error"
ZeroLength(d) == d.decodes /\ d.text = ""
\* The wait_for call c makes the poll of its slot.
Polls(c) == calls[c].pc = "wf_poll" /\ calls'[c].pc # "wf_poll"

C18_OneExactHandler ==
    /\ [][\A r \in ExactRegs :
             SubscribeTopic(r[1], r[2])
                => /\ DOMAIN topic_handlers' = DOMAIN topic_handlers \cup {r[1]}
                   /\ topic_handlers'[r[1]] = r[2]
                   /\ \A u \in DOMAIN topic_handlers \ {r[1]} :
                         topic_handlers'[u] = topic_handlers[u]
                   /\ prefix_handlers' = prefix_handlers]_vars
    /\ [][nmsg' # nmsg
             => LET inv == dispatched'.invoked
                IN  /\ Cardinality(ExactCalls(inv)) <= 1
                    /\ \A i \in ExactCalls(inv) :
                          [topic |-> inv[i].topic, h |-> inv[i].h] \notin displaced]_vars
C18_Witness ==
    LET inv == dispatched.invoked
    IN  /\ [topic |-> StateTopic(Dev), h |-> "h1"] \in displaced
        /\ Len(inv) >= 1
        /\ inv[1].how = "exact" /\ inv[1].topic = StateTopic(Dev) /\ inv[1].h = "h2"
        /\ ExactCalls(inv) = {1}
        /\ SetTopic(Dev) \in DOMAIN topic_handlers
        /\ prefix_handlers # << >>

\* C19: a set_group_state call is over in one step.  With at least one of
\* state, brightness, color_temp it has published exactly one message, the
\* command holding exactly the supplied fields, to NS/<group>/set and
\* returned {success, command}; with none it has raised ValueError and
\* published nothing.  It leaves no handler, slot, correlation entry or
\* subscription behind and never reads the clock.
IsSgs(c) == calls[c].op = "set_group_state"
C19_GroupFireAndForget ==
    /\ \A c \in Calls :
          IsSgs(c) =>
            /\ calls[c].pc = "done" /\ calls[c].elapsed = 0
            /\ IF calls[c].args = <<None, None, None>>
               THEN Raised(c, "ValueError") /\ sent[c] = << >>
               ELSE /\ Returned(c) /\ calls[c].result.success
                    /\ calls[c].result.command =
                         [state |-> calls[c].args[1],
                          brightness |-> calls[c].args[2],
                          color_temp |-> calls[c].args[3]]
                    /\ sent[c] = <<[topic |-> <<Z2M_BASE, Group, "set">>,
                                    body |-> calls[c].result.command]>>
    /\ topic_handlers = EmptyDict /\ prefix_handlers = << >>
    /\ one_shot = EmptyDict /\ wait_by_key = EmptyDict
    /\ subscribed = {<<Z2M_BASE, "#">>, <<Z2M_BASE, "bridge", "response", "#">>}
C19_Witness ==
    \E c, d \in Calls :
        /\ IsSgs(c) /\ Returned(c) /\ Len(sent[c]) = 1
        /\ calls[c].args = <<None, "0", None>>
        /\ IsSgs(d) /\ Raised(d, "ValueError") /\ sent[d] = << >>
        /\ nmsg = MaxMsgs

\* C20 (as claimed): on every route a DeviceTimeoutError of the controller
\* becomes status 504, a ValueError 422, a DeviceNotFoundError 404 and any
\* other exception 500.
C20_UniformErrorMapping ==
    \A c \in Calls :
        (calls[c].op = "route" /\ calls[c].pc = "done")
           => calls[c].result =
                CASE calls[c].outcome = "none" -> 200
                  [] calls[c].outcome = "DeviceTimeoutError" -> 504
                  [] calls[c].outcome = "ValueError" -> 422
                  [] calls[c].outcome = "DeviceNotFoundError" -> 404
                  [] OTHER -> 500

\* C21 (as claimed): once a wait_for call has returned, with a payload or
\* after its timeout, and no wait_for is outstanding on its topic, the slot
\* table holds no slot for the topic.
C21_NoSlotAfterReturn ==
    \A c \in Calls :
        (IsWait(c) /\ calls[c].pc = "done" /\ ~calls[c].other
           /\ Waiting(calls, calls[c].topic) = {})
           => calls[c].topic \notin DOMAIN one_shot

\* C22 (as claimed): while a thread holds the bus lock, the four tables are
\* changed by no step but a step of that thread.
TablesChange ==
    \/ topic_handlers' # topic_handlers
    \/ prefix_handlers' # prefix_handlers
    \/ wait_by_key' # wait_by_key
    \/ one_shot' # one_shot
HolderActs ==
    \/ locks.bus = "delivery" /\ delivery' # delivery
    \/ \E c \in Calls : locks.bus = c /\ calls'[c].pc # calls[c].pc
C22_MutationsUnderLock ==
    [][TablesChange => (locks.bus = None \/ HolderActs)]_vars

\* C23: no caller thread holds the bus lock anywhere but inside a `with
\* self._lock` block, so never while it sleeps between polls or waits for its
\* event; a thread that holds the lock of a set_device_state call does not
\* ask for the bus lock; the delivery thread holds no call lock between
\* steps; and every message handed to _on_message is dispatched to the end.
LockedOnlyInBlock ==
    \A c \in Calls :
        /\ locks.bus = c => (AtLock(c) /\ ~Sleeping(c) /\ calls[c].pc # "sds_wait")
        /\ locks.call[c] = "caller" => (calls[c].pc = "sds_woken" /\ locks.bus # c)
        /\ locks.call[c] # "delivery"
C23_DeliveryNeverBlocked ==
    /\ []LockedOnlyInBlock
    /\ (delivery.pc = "pending") ~> (delivery.pc = "idle")
C23_Witness ==
    /\ delivery.pc = "run" /\ locks.bus = "delivery" /\ nmsg >= 1
    /\ \E c \in Calls : /\ locks.call[c] = "caller"
                         /\ delivery.topic \in DOMAIN topic_handlers
                         /\ topic_handlers[delivery.topic] = c
    /\ \E d \in Calls : calls[d].pc \in {"rpc_poll", "wf_poll"}

\* C24 (as claimed): at most one MqttBus is ever built, and every get_bus()
\* call, made directly or by DeviceController.__init__, returns that one.
BusOf(c) == IF calls[c].op = "get_bus" THEN calls[c].result
            ELSE calls[c].result.bus
AskedForBus(c) == calls[c].op \in {"get_bus", "get_controller"} /\ Returned(c)
C24_OneSession ==
    /\ session.buses <= 1
    /\ \A c, d \in Calls : (AskedForBus(c) /\ AskedForBus(d)) => BusOf(c) = BusOf(d)

\* C25 (as claimed): once a set_device_state call has raised
\* DeviceTimeoutError its handler is no longer the exact handler of the
\* device's state topic, and once a wait_for call, alone on its topic, has
\* returned {} after its timeout the slot table holds no slot for the topic.
\* (An rpc call puts nothing into the tables.)
C25_NoResidueAfterTimeout ==
    \A c \in Calls :
        /\ (IsSds(c) /\ Raised(c, "DeviceTimeoutError"))
              => ~(calls[c].topic \in DOMAIN topic_handlers
                     /\ topic_handlers[calls[c].topic] = c)
        /\ (IsWait(c) /\ Returned(c) /\ ~Truthy(calls[c].result)
               /\ ~calls[c].other /\ Waiting(calls, calls[c].topic) = {})
              => calls[c].topic \notin DOMAIN one_shot

\* The rpc call c makes the poll of the correlation table.
RpcPolls(c) == calls[c].pc = "rpc_poll" /\ calls'[c].pc # "rpc_poll"

\* C26: a poll that finds an entry under the call's id takes it out of the
\* table in the same step, and a call that returns in that step returns that
\* entry's payload; no two rpc calls return the same message (message n
\* carries body n), also when both poll the same id.
C26_SingleConsumption ==
    /\ [](\A c, d \in Calls :
             (c # d /\ IsRpc(c) /\ IsRpc(d) /\ Returned(c) /\ Returned(d))
                => calls[c].result # calls[d].result)
    /\ [][\A c \in Calls :
             (RpcPolls(c) /\ calls[c].corr \in DOMAIN wait_by_key)
                => /\ calls[c].corr \notin DOMAIN wait_by_key'
                   /\ calls'[c].pc = "done"
                        => calls'[c].result = wait_by_key[calls[c].corr].payload]_vars
C26_Witness ==
    \E c, d \in Calls :
        /\ c # d /\ IsRpc(c) /\ IsRpc(d) /\ calls[c].corr = calls[d].corr
        /\ Returned(c) /\ Returned(d)
        /\ calls[c].result.body = 1 /\ calls[d].result.body = 2

\* C27 (as claimed): a poll of rpc changes the correlation table only by
\* removing an entry that is filed under the call's id and whose topic is
\* under NS/bridge/response/.
C27_RemovesOnlyMatch ==
    [][\A c \in Calls :
          (RpcPolls(c) /\ wait_by_key' # wait_by_key)
             => /\ calls[c].corr \in DOMAIN wait_by_key
                /\ StartsWithSlash(wait_by_key[calls[c].corr].topic, ResponsePrefix)]_vars

\* C27 (amended): a poll of rpc removes the entry filed under the call's id
\* whatever its topic and leaves every other entry alone; the call returns
\* the entry's payload when the topic is under NS/bridge/response/ and
\* otherwise drops the entry and sleeps; without an entry under its id the
\* poll leaves the table unchanged.
C27_PopsThenFilters ==
    [][\A c \in Calls :
          RpcPolls(c) =>
             LET k == calls[c].corr
             IN  IF k \in DOMAIN wait_by_key
                 THEN /\ DOMAIN wait_by_key' = DOMAIN wait_by_key \ {k}
                      /\ \A x \in DOMAIN wait_by_key' :
                            wait_by_key'[x] = wait_by_key[x]
                      /\ IF StartsWithSlash(wait_by_key[k].topic, ResponsePrefix)
                         THEN /\ calls'[c].pc = "done"
                              /\ calls'[c].outcome = "returned"
                              /\ calls'[c].result = wait_by_key[k].payload
                         ELSE calls'[c].pc = "rpc_sleep"
                 ELSE /\ wait_by_key' = wait_by_key
                      /\ calls'[c].pc = "rpc_sleep"]_vars
C27_Witness ==
    \E c \in Calls :
        /\ IsRpc(c) /\ Raised(c, "TimeoutError") /\ ~calls[c].stalled
        /\ calls[c].heard # {}
        /\ \A h \in calls[c].heard : h.t = RequestTopic /\ h.intime
        /\ calls[c].corr \notin DOMAIN wait_by_key

\* C28 (as claimed): the body an rpc call publishes holds the call's token
\* under `transaction` and under `id`, the token it polls for.
C28_PublishedIdIsPolledId ==
    \A c \in Calls :
        IsRpc(c) => /\ Len(sent[c]) = 1
                    /\ sent[c][1].body.transaction = calls[c].corr
                    /\ sent[c][1].body.id = calls[c].corr

\* C29: an entry of the correlation table is removed only by the poll of an
\* rpc call whose id is the entry's key, and changed only by the dispatch of
\* a later message with that key (message n carries body n); every other
\* step, of rpc (its timeout included), wait_for, registration or dispatch of
\* a message with another key, leaves it as it is.
C29_EntriesPersist ==
    [][\A k \in DOMAIN wait_by_key :
          IF k \notin DOMAIN wait_by_key'
          THEN \E c \in Calls : IsRpc(c) /\ RpcPolls(c) /\ calls[c].corr = k
          ELSE wait_by_key'[k] # wait_by_key[k]
                 => /\ nmsg' = nmsg + 1
                    /\ CorrKey(wait_by_key'[k].payload) = k
                    /\ wait_by_key'[k].payload.body = nmsg + 1]_vars
C29_Witness ==
    /\ \E c \in Calls : /\ IsRpc(c) /\ Raised(c, "TimeoutError")
                         /\ calls[c].corr \in DOMAIN wait_by_key
    /\ "zz" \in DOMAIN wait_by_key
    /\ Cardinality(DOMAIN wait_by_key) = MaxMsgs
    /\ \E c \in Calls : IsWait(c) /\ calls[c].pc = "done"
    /\ topic_handlers # EmptyDict /\ prefix_handlers # << >>

\* Does the MQTT topic filter f (levels, "+" = any one level, "#" = all the
\* rest) match the topic t?
RECURSIVE FilterMatches(_, _)
FilterMatches(t, f) ==
    IF f = << >> THEN t = << >>
    ELSE IF f[1] = "#" THEN TRUE
    ELSE IF t = << >> THEN FALSE
    ELSE (f[1] = "+" \/ f[1] = t[1]) /\ FilterMatches(Tail(t), Tail(f))

\* C30 (as claimed): a run of _on_message on a topic invokes every handler
\* that was registered through subscribe_prefix with a pattern holding `+` or
\* `#` that matches the topic.
C30_WildcardFanOut ==
    [][nmsg' # nmsg =>
          \A t \in WildTopics :
             OnMessage(t, Payload(None, None, nmsg + 1))
                => \A k \in DOMAIN prefix_handlers :
                      (HasWildcard(prefix_handlers[k].prefix)
                         /\ FilterMatches(t, TopicFilter(prefix_handlers[k].prefix)))
                         => PrefixCalls(dispatched'.invoked,
                                        prefix_handlers[k].prefix) # {}]_vars

\* C31: set_device_state takes any message dispatched to its handler as the
\* confirmation, whatever it holds: the dispatch stores the payload and sets
\* the event without looking at the command, and a call that had a message
\* dispatched to its handler after registration (before or after the command
\* was published) ends by returning one of those payloads, never by
\* DeviceTimeoutError.
C31_AnyPayloadConfirms ==
    /\ [](\A c \in Calls :
            (IsSds(c) /\ calls[c].pc = "done"
               /\ \E h \in calls[c].heard : h.own)
              => /\ Returned(c)
                 /\ \E h \in calls[c].heard : h.own /\ h.p = calls[c].result)
    /\ [][nmsg' # nmsg =>
            \A p \in CmdPayloads, c \in Calls :
               (OnMessage(StateTopic(Dev), p)
                  /\ StateTopic(Dev) \in DOMAIN topic_handlers
                  /\ topic_handlers[StateTopic(Dev)] = c)
                 => calls'[c].event /\ calls'[c].confirmed = p]_vars
\* A call returned a payload that does not show the commanded state and was
\* dispatched before the command was published.
C31_Witness ==
    \E c \in Calls :
       /\ IsSds(c) /\ Returned(c)
       /\ calls[c].result.body = 2
       /\ \A h \in calls[c].heard : ~h.published
       /\ \E h \in calls[c].heard : h.own /\ h.p = calls[c].result

\* C33: a set_device_state call that returned gives back a payload that was
\* dispatched to its own handler, after its own registration: every message
\* is numbered in dispatch order, and the number of a returned payload is
\* above the count of messages dispatched when the call registered.
C33_OnlyOwnRegistration ==
    \A c \in Calls :
       (IsSds(c) /\ Returned(c))
         => /\ \E h \in calls[c].heard :
                  h.own /\ h.t = calls[c].topic /\ h.p = calls[c].result
            /\ Truthy(calls[c].result) => calls[c].result.body > calls[c].m_start
\* An earlier call timed out, its stale handler then took message 1, and a
\* later call on the same device registered after that and returned message 2.
C33_Witness ==
    \E c, d \in Calls :
       /\ c # d /\ IsSds(c) /\ IsSds(d)
       /\ Raised(c, "DeviceTimeoutError") /\ calls[c].confirmed.body = 1
       /\ Returned(d) /\ calls[d].m_start = 1 /\ calls[d].result.body = 2

\* C34: a message on a topic other than exactly NS/<name>, the echo of the
\* command on NS/<name>/set in particular, leaves confirmed_state and the
\* event of every set_device_state call as they were, and a call that ended
\* with no message dispatched on its state topic did not return.
C34_EchoIgnored ==
    /\ [](\A c \in Calls :
            (IsSds(c) /\ calls[c].pc = "done"
               /\ ~\E h \in calls[c].heard : h.t = StateTopic(Dev))
              => ~Returned(c))
    /\ [][nmsg' # nmsg =>
            \A t \in CmdTopics \ {StateTopic(Dev)}, p \in CmdPayloads :
               OnMessage(t, p)
                 => \A c \in Calls :
                       /\ calls'[c].event = calls[c].event
                       /\ calls'[c].confirmed = calls[c].confirmed]_vars
\* A call is waiting after its publish, the message just dispatched went out
\* on the command topic, and the call has heard nothing.
C34_Witness ==
    \E c \in Calls :
       /\ IsSds(c) /\ calls[c].pc = "sds_wait" /\ ~calls[c].event
       /\ calls[c].m_start = 0 /\ nmsg = MaxMsgs
       /\ calls[c].heard = {}
       /\ dispatched.steps # << >>

\* C35: of two overlapping set_device_state calls on one device, the one
\* whose handler was replaced by the later registration is passed over by
\* every later dispatch on the state topic, which goes to the call in the
\* table; a call that had no message dispatched to its own handler ends only
\* by DeviceTimeoutError, whatever arrived within its budget.
C35_LaterRegistrationWins ==
    /\ [](\A c \in Calls :
            (IsSds(c) /\ calls[c].pc = "done" /\ calls[c].other
               /\ \A h \in calls[c].heard : ~h.own)
              => Raised(c, "DeviceTimeoutError"))
    /\ [][nmsg' # nmsg =>
            \A p \in CmdPayloads :
               OnMessage(StateTopic(Dev), p)
                 => \A c \in Calls :
                       IF calls[c].other
                       THEN /\ calls'[c].event = calls[c].event
                            /\ calls'[c].confirmed = calls[c].confirmed
                       ELSE (StateTopic(Dev) \in DOMAIN topic_handlers
                               /\ topic_handlers[StateTopic(Dev)] = c)
                              => calls'[c].event /\ calls'[c].confirmed = p]_vars
\* The replaced call timed out although a state message was dispatched within
\* its budget after its publish; the later call returned that message.
C35_Witness ==
    \E c, d \in Calls :
       /\ c # d /\ IsSds(c) /\ IsSds(d)
       /\ Raised(c, "DeviceTimeoutError") /\ calls[c].other
       /\ Returned(d) /\ ~calls[d].other
       /\ \E h \in calls[c].heard :
             ~h.own /\ h.intime /\ h.published /\ h.p = calls[d].result

\* C32: a dispatch files an object payload under its `transaction` when that
\* is present and non-empty, otherwise under its `id` when that is present
\* and non-empty, and files nothing for any other payload; an rpc call
\* returns only a response-topic payload whose `transaction` is the call's
\* id or, with no usable `transaction`, whose `id` is the call's id.
C32_KeyChoice ==
    /\ [](\A c \in Calls :
            (IsRpc(c) /\ Returned(c))
              => LET p == calls[c].result
                 IN  /\ p.kind = "dict"
                     /\ calls[c].rtopic = ResponseTopic
                     /\ IF p.transaction \notin {None, ""}
                        THEN p.transaction = calls[c].corr
                        ELSE p.id = calls[c].corr)
    /\ [][nmsg' # nmsg =>
            \A p \in KeyPayloads :
               OnMessage(ResponseTopic, p)
                 => LET entry == [topic |-> ResponseTopic, payload |-> p]
                    IN  wait_by_key' =
                          IF p.kind # "dict" THEN wait_by_key
                          ELSE IF p.transaction \notin {None, ""}
                               THEN Put(wait_by_key, p.transaction, entry)
                          ELSE IF p.id \notin {None, ""}
                               THEN Put(wait_by_key, p.id, entry)
                          ELSE wait_by_key]_vars
\* The call returned a response whose `transaction` is empty and whose `id`
\* is its id, while a response with another `transaction` and the call's id
\* in `id` stayed filed under that other key.
C32_Witness ==
    \E c \in Calls :
       /\ IsRpc(c) /\ Returned(c)
       /\ calls[c].result.transaction = "" /\ calls[c].result.id = "a1"
       /\ "b2" \in DOMAIN wait_by_key
       /\ wait_by_key["b2"].payload.id = "a1"

\* C36: two overlapping wait_for calls on one topic share one slot: they never
\* return the same message; a call that starts while the other is waiting
\* leaves the slot empty; and once one of them has finished (it consumed the
\* slot or removed it at its timeout) the other returns only the empty
\* result.
C36_SharedSlot ==
    /\ [](\A c, d \in Calls :
            (c # d /\ IsWait(c) /\ IsWait(d) /\ Returned(c) /\ Returned(d)
               /\ Truthy(calls[c].result))
              => calls[c].result # calls[d].result)
    /\ [][\A c, d \in Calls :
            /\ (c # d /\ calls[c].pc = "idle" /\ calls'[c].op = "wait_for"
                  /\ d \in Waiting(calls, calls'[c].topic))
                 => one_shot'[calls'[c].topic] = EmptyObj
            /\ (c # d /\ IsWait(c) /\ IsWait(d) /\ calls[c].other
                  /\ calls[c].topic = calls[d].topic
                  /\ calls[d].pc = "done" /\ calls[c].pc # "done"
                  /\ calls'[c].pc = "done")
                 => calls'[c].result = EmptyObj]_vars

\* The delivery thread is inside a handler, at the `with self._lock` of the
\* bus method the handler called.
InHandler == delivery.pc = "handler"

\* C37: a delivery whose handler calls back into the bus stops in that
\* handler holding the lock, and from then on nothing that needs the lock
\* happens: the delivery stays where it is, no message is dispatched, no
\* handler is registered, no correlation entry is filed or removed, and no
\* caller gets past an rpc poll, a wait_for poll or the slot creation of
\* wait_for.
C37_ReentryBlocksBus ==
    /\ [](InHandler => locks.bus = "delivery")
    /\ [][(delivery.pc = "run" /\ ExactReenters(delivery.topic)
             /\ delivery' # delivery) => InHandler']_vars
    /\ [][InHandler =>
            /\ delivery' = delivery /\ locks' = locks
            /\ nmsg' = nmsg /\ dispatched' = dispatched
            /\ topic_handlers' = topic_handlers
            /\ prefix_handlers' = prefix_handlers
            /\ wait_by_key' = wait_by_key
            /\ \A c \in Calls :
                  /\ calls[c].pc \in {"rpc_poll", "wf_poll"}
                       => calls'[c].pc = calls[c].pc
                  /\ calls[c].pc = "idle" => calls'[c].op # "wait_for"]_vars
\* The delivery is stuck in the handler before any message was dispatched,
\* the rpc caller is at a poll it entered within its budget, which has now
\* run out, and the wait_for caller is at a poll too.
C37_Witness ==
    /\ InHandler /\ nmsg = 0
    /\ \E c \in Calls : calls[c].pc = "rpc_poll" /\ calls[c].elapsed >= Timeout
    /\ \E d \in Calls : calls[d].pc = "wf_poll"

\* {} and []: the values with no content.
EmptyValues == {EmptyObj, List(0)}

\* C38: b'', b'{}' and b'[]' on a waited topic put the empty value into the
\* slot, over whatever it held; a poll that finds an empty value leaves the
\* slot alone and goes to sleep; a wait_for call that heard only such
\* messages returns {} once its timeout has passed; a set_device_state call
\* whose handler was given only such messages returns one of them.
C38_EmptyPayloadIgnoredByWaitFor ==
    /\ [](\A c \in Calls :
            /\ (IsWait(c) /\ calls[c].pc = "done"
                  /\ \A h \in calls[c].heard : h.p \in EmptyValues)
                 => /\ calls[c].result = EmptyObj
                    /\ calls[c].elapsed >= Timeout
            /\ (IsSds(c) /\ calls[c].pc = "done"
                  /\ (\E h \in calls[c].heard : h.own)
                  /\ (\A g \in calls[c].heard : g.p \in EmptyValues))
                 => Returned(c) /\ calls[c].result \in EmptyValues)
    /\ [][nmsg' # nmsg =>
            \A d \in EmptyKinds :
               (OnMessage(StateTopic(Dev), TryJson(d))
                  /\ StateTopic(Dev) \in DOMAIN one_shot)
                 => one_shot'[StateTopic(Dev)] =
                       IF d = EmptyListBytes THEN List(0) ELSE EmptyObj]_vars
    /\ [][\A c \in Calls :
            (IsWait(c) /\ calls[c].pc = "wf_poll" /\ calls'[c].pc # "wf_poll"
               /\ calls[c].topic \in DOMAIN one_shot
               /\ one_shot[calls[c].topic] \in EmptyValues)
              => calls'[c].pc = "wf_sleep" /\ one_shot' = one_shot]_vars
\* The waited slot holds [] although the waiting call has heard a non-empty
\* message since it created the slot, and the set_device_state call has
\* returned that empty payload.
C38_Witness ==
    /\ \E c \in Calls :
          /\ IsWait(c) /\ calls[c].pc = "wf_sleep"
          /\ \E h \in calls[c].heard : h.p \notin EmptyValues
          /\ calls[c].topic \in DOMAIN one_shot
          /\ one_shot[calls[c].topic] = List(0)
    /\ \E d \in Calls : IsSds(d) /\ Returned(d) /\ calls[d].result = List(0)

\* The controller method of call c has ended.
Surfaced(c) == calls[c].args # << >> /\ calls[c].inner.outcome # "none"

\* C39: a controller method that has ended raised DeviceTimeoutError or
\* returned; an rpc method raised exactly when its rpc call raised
\* TimeoutError, a wait_for method raised exactly when its wait_for call
\* returned {}; no other outcome of the bus call becomes DeviceTimeoutError
\* and no timeout becomes a returned value.
C39_TimeoutsSurface ==
    \A c \in Calls :
       Surfaced(c) =>
          LET m == calls[c].args[1]
              timed_out == IF m \in RpcMethods
                           THEN calls[c].inner.outcome = "TimeoutError"
                           ELSE /\ calls[c].inner.outcome = "returned"
                                /\ calls[c].inner.result = EmptyObj
          IN  /\ calls[c].outcome \in {"returned", "DeviceTimeoutError"}
              /\ calls[c].outcome = "DeviceTimeoutError" <=> timed_out
              /\ calls[c].outcome = "returned"
                   => /\ calls[c].inner.outcome = "returned"
                      /\ calls[c].inner.result # EmptyObj
\* get_groups raised DeviceTimeoutError after its rpc timed out, and
\* list_devices raised it after wait_for returned {} although the bridge had
\* published an empty device list within the budget.
C39_Witness ==
    \E c, d \in Calls :
       /\ Surfaced(c) /\ calls[c].args[1] = "get_groups"
       /\ calls[c].inner.outcome = "TimeoutError"
       /\ calls[c].outcome = "DeviceTimeoutError"
       /\ Surfaced(d) /\ calls[d].args[1] = "list_devices"
       /\ calls[d].outcome = "DeviceTimeoutError"
       /\ \E h \in calls[d].heard : h.p = List(0) /\ h.intime

====
